---- MODULE Spec2Model ----
(***************************************************************************)
(* Model of the weekly Slack notification worker (src/src/index.ts):       *)
(* the scheduled handler and the runNotificationCheck, checkRecentlySent   *)
(* and sendSlackNotification it runs, in several uncoordinated             *)
(* invocations against one rule table                                      *)
(* (weekly_notifications), one delivery ledger (sent_notifications) and    *)
(* one Slack webhook.  The modular implementation of the same functions    *)
(* (src/src/lib) is the other build of the worker.                         *)
(*                                                                         *)
(* Time is counted in seconds from a Sunday 00:00:00 UTC; the code's       *)
(* millisecond clock is read with one-second resolution.  A time string    *)
(* "HH:MM:SS" is the triple <<HH, MM, SS>> of its fields; every other      *)
(* string that the code inspects character by character (day_of_week) is   *)
(* a sequence of one-character strings, and a message, which the store     *)
(* searches for a phrase, is the sequence of its words.                    *)
(***************************************************************************)
EXTENDS Integers, Sequences, FiniteSets, TLC

VARIABLES
    now,                   \* Date.now(), in seconds
    weekly_notifications,  \* the rule table, in store order
    sent_notifications,    \* the delivery ledger, rows in insertion order
    slack,                 \* messages the webhook accepted, in order
    inv,                   \* per invocation: position and locals of its pass
    started,               \* history: the instant each pass started at
    nfault,                \* history: failed I/O calls so far
    overlaps,              \* history: pairs of passes that ran at the same time
    failed,                \* history: the sends the webhook did not accept
    limits,                \* what bounds the behaviour; never changes
    env,                   \* the worker's bindings; never changes
    build,                 \* the implementation deployed; never changes
    executionLogs          \* the in-memory log, newest entry first

vars == <<now, weekly_notifications, sent_notifications, slack, inv,
          started, nfault, overlaps, failed, limits, env, build,
          executionLogs>>

----------------------------------------------------------------------------
(* Bounds of the model *)

\* invocations that may be running at the same time
MaxInvocations == 2
\* passes started in one behaviour
MaxPasses == 2
\* failed I/O calls (store read, ledger query, webhook, ledger insert)
MaxFaults == 1
\* clock ticks of one minute that one pass may span
MaxPassTicks == 1
\* minutes of wall-clock time in one behaviour
HorizonMinutes == 33
\* passes started in one behaviour in which passes never overlap
MaxSeqPasses == 3

\* passes started in one behaviour in which every I/O call succeeds
MaxLedgerPasses == 4
\* minutes the clock of the worker with routes is followed for
RouteMinutes == 1
\* requests of /force-test that get a message posted
MaxForceTests == 2

Invocations == 1..MaxInvocations

----------------------------------------------------------------------------
(* Program constants *)

SecondsPerMinute == 60
SecondsPerDay == 24 * 60 * SecondsPerMinute

\* const kstOffset = 9 * 60
kstOffset == 9 * 60

\* if (timeDiff > 15)
ToleranceMinutes == 15

\* const cooldownMinutes = timeDiff <= 2 ? 5 : 15
CloseDistanceThreshold == 2
ShortCooldownMinutes == 5
LongCooldownMinutes == 15

\* setTimeout(resolve, 2000): the delay before the retry, in seconds
RetryDelaySeconds == 2

----------------------------------------------------------------------------
(* Strings *)

UpperCase == <<"A","B","C","D","E","F","G","H","I","J","K","L","M",
               "N","O","P","Q","R","S","T","U","V","W","X","Y","Z">>
LowerCase == <<"a","b","c","d","e","f","g","h","i","j","k","l","m",
               "n","o","p","q","r","s","t","u","v","w","x","y","z">>

\* String.prototype.toLowerCase
toLowerCase(s) ==
    [k \in 1..Len(s) |->
        IF \E j \in 1..26 : UpperCase[j] = s[k]
        THEN LowerCase[CHOOSE j \in 1..26 : UpperCase[j] = s[k]]
        ELSE s[k]]

\* String.prototype.trim
trim(s) ==
    LET inner == {k \in 1..Len(s) : s[k] # " "}
    IN  IF inner = {} THEN <<>>
        ELSE LET lo == CHOOSE k \in inner : \A j \in inner : k <= j
                 hi == CHOOSE k \in inner : \A j \in inner : k >= j
             IN  SubSeq(s, lo, hi)

Digits == <<"0","1","2","3","4","5","6","7","8","9">>

\* Number.prototype.toString of a day number 0..6
toString(n) == <<Digits[n + 1]>>

\* parseInt of a one-digit string
parseInt(s) == CHOOSE n \in 0..9 : Digits[n + 1] = s[1]

\* const dayNames = ['sunday', ..., 'saturday']
dayNames == << <<"s","u","n","d","a","y">>,
               <<"m","o","n","d","a","y">>,
               <<"t","u","e","s","d","a","y">>,
               <<"w","e","d","n","e","s","d","a","y">>,
               <<"t","h","u","r","s","d","a","y">>,
               <<"f","r","i","d","a","y">>,
               <<"s","a","t","u","r","d","a","y">> >>

----------------------------------------------------------------------------
(* Time *)

Abs(x) == IF x < 0 THEN -x ELSE x

\* getKSTTime: now shifted by nine hours
getKSTTime(t) == t + kstOffset * 60

\* Date.prototype.getDay of a date counted from a Sunday 00:00:00
getDay(d) == (d \div SecondsPerDay) % 7

\* formatTime: date.toTimeString().split(' ')[0], the fields of HH:MM:SS
formatTime(d) ==
    << (d % SecondsPerDay) \div 3600, (d % 3600) \div 60, d % 60 >>

\* mutant: the seconds are rounded to the nearest minute
timeToMinutes_Rounded(timeString) ==
    timeString[1] * 60 + timeString[2] + (IF timeString[3] >= 30 THEN 1 ELSE 0)

\* timeToMinutes: hours * 60 + minutes of the first two fields
timeToMinutes(timeString) == timeString[1] * 60 + timeString[2]

\* mutant: the names are compared as they are written
checkDayMatch_CaseSensitive(dbDay, currentDayNumber, currentDayName) ==
    \/ trim(dbDay) = trim(currentDayNumber)
    \/ trim(dbDay) = currentDayName

\* checkDayMatch(dbDay, currentDayNumber, currentDayName)
checkDayMatch(dbDay, currentDayNumber, currentDayName) ==
    LET normalizedDbDay == trim(dbDay)
        normalizedCurrentDay == trim(currentDayNumber)
    IN  \/ normalizedDbDay = normalizedCurrentDay
        \/ toLowerCase(normalizedDbDay) = toLowerCase(currentDayName)

----------------------------------------------------------------------------
(* The rule table *)

\* Monday 09:00:00 in UTC+9, the occurrence the clock of the model surrounds
DueTime == <<9, 0, 0>>

\* rows of weekly_notifications: a rule due at DueTime stored with the day
\* number, one due twenty minutes later stored with the day name, one of
\* another day, and an inactive one.  The second carries a branch version
\* and an emoji, and its message has a word standing for each.
Rules ==
    << [id |-> "n1", message |-> <<"m1">>, day_of_week |-> <<"1">>,
        time |-> DueTime, is_active |-> TRUE],
       [id |-> "n2",
        message |-> <<"m2", "{{branch_version}}", "{{emoji_this_week}}">>,
        day_of_week |-> <<" ","M","o","n","d","a","y">>,
        time |-> <<9, 20, 15>>, is_active |-> TRUE,
        branch_version |-> "v1.2", emoji_this_week |-> ":tada:"],
       [id |-> "n3", message |-> <<"m3">>, day_of_week |-> <<"2">>,
        time |-> DueTime, is_active |-> TRUE],
       [id |-> "n4", message |-> <<"m4">>, day_of_week |-> <<"1">>,
        time |-> DueTime, is_active |-> FALSE] >>

RuleIds == {Rules[k].id : k \in 1..Len(Rules)}

\* the instant (seconds, UTC) of the occurrence of a rule stored with day
\* number d and time t, in the week of the model
OccurrenceAt(d, t) ==
    d * SecondsPerDay + timeToMinutes(t) * 60 + t[3] - kstOffset * 60

\* the first instant of a behaviour: 16 minutes before n1 is due, at second 20
FirstInstant == OccurrenceAt(1, DueTime) - 16 * 60 + 20
LastInstant == FirstInstant + HorizonMinutes * 60

----------------------------------------------------------------------------
(* Invocations *)

\* pc and the locals of scheduled and runNotificationCheck: runs counts the
\* calls of runNotificationCheck the handler has made.  pass, ledgerAtStart,
\* fetched, checked and dispatched are history: the number of the pass, the
\* length of the ledger when it started, how its read of the rules ended,
\* what its filter loop did with each rule of today (the distance, the
\* instant of the check, the bound given to the ledger query, the query's
\* outcome, the verdict) and what its send loop did; trigger is the handler
\* that called runNotificationCheck
Idle ==
    [pc |-> "idle", runs |-> 0, pass |-> 0, ledgerAtStart |-> 0, kstTime |-> 0,
     todaysNotifications |-> <<>>, matchingNotifications |-> <<>>,
     fetched |-> "none", checked |-> <<>>, dispatched |-> <<>>,
     trigger |-> "none"]

npass == Len(started)

\* mutant: the clock is read again whenever the time is used
currentTime_ReadAgain(i) == formatTime(getKSTTime(now))

\* locals of runNotificationCheck derived from kstTime
currentDayOfWeek(i) == toString(getDay(inv[i].kstTime))
currentTime(i) == formatTime(inv[i].kstTime)
currentDayName(i) == dayNames[parseInt(currentDayOfWeek(i)) + 1]

\* the instant at which the pass of invocation i started
StartedAt(i) == inv[i].kstTime - kstOffset * 60

Running(i) == inv[i].pc # "idle"

\* the two implementations of the pass: src/index.ts, and lib/handlers with
\* lib/slack and lib/database
Builds == {"index", "lib"}

\* implementation b is deployed at instant t with the rule table rows, an
\* empty ledger, a webhook to post to and no invocation running
DeployedAs(b, t, rows) ==
    /\ build = b
    /\ executionLogs = <<>>
    /\ now = t
    /\ weekly_notifications = rows
    /\ sent_notifications = <<>>
    /\ slack = <<>>
    /\ inv = [i \in Invocations |-> Idle]
    /\ started = <<>>
    /\ nfault = 0
    /\ overlaps = {}
    /\ failed = {}
    /\ env = [SLACK_WEBHOOK_URL |-> "https://hooks.slack.com/services"]

\* the worker of src/index.ts is deployed
Deployed(t, rows) == DeployedAs("index", t, rows)

Init ==
    /\ Deployed(FirstInstant, Rules)
    /\ limits = [passes |-> MaxPasses, faults |-> MaxFaults, alone |-> FALSE,
                 ticks |-> MaxPassTicks, last |-> LastInstant, forced |-> 0]

\* the same, with more passes, each started after the one before has ended
\* and each over within the minute
InitSeq ==
    /\ Deployed(FirstInstant, Rules)
    /\ limits = [passes |-> MaxSeqPasses, faults |-> MaxFaults, alone |-> TRUE,
                 ticks |-> 0, last |-> LastInstant, forced |-> 0]

\* outcome o of an I/O call is possible: a failure uses up the fault budget
Possible(o) == o = "ok" \/ nfault < limits.faults
Faults(o) == IF o = "ok" THEN nfault ELSE nfault + 1

----------------------------------------------------------------------------
(* SimpleSupabaseTable *)

\* what an HTTP call to the store can do: answer with a success status and
\* the rows asked for, answer with another status, fail in the network, or
\* answer with a success status and a body that is no list of rows
StoreAnswers == {"ok", "notok", "throw", "malformed"}

\* a JSON object that is no row of a table
NotARow == [message |-> <<"no", "rows">>]

\* mutant: the status of the response is not looked at, its body is taken
\* for the rows
execute_IgnoresStatus(raw, rows) ==
    CASE raw = "throw" -> [data |-> <<>>, error |-> TRUE]
      [] raw = "malformed" -> [data |-> <<NotARow>>, error |-> FALSE]
      [] OTHER -> [data |-> rows, error |-> FALSE]

\* execute: { data, error } for answer raw, rows being what the query
\* selects; null data is the empty list
execute(raw, rows) ==
    CASE raw = "ok" -> [data |-> rows, error |-> FALSE]
      [] raw = "malformed" -> [data |-> <<NotARow>>, error |-> FALSE]
      [] OTHER -> [data |-> <<>>, error |-> TRUE]

\* insert: the error of { data, error } for answer raw
insert(raw) == raw # "ok"

\* mutant: the row is not kept
Inserted_Dropped(name, rows, into, row) == rows

\* the rows of the table called name once row has been inserted into the
\* table called into
Inserted(name, rows, into, row) ==
    IF name = into THEN Append(rows, row) ELSE rows

\* notification_id REFERENCES weekly_notifications(id): the store refuses
\* the record of a rule that is not in the rule table
Refused(raw, rows, notificationId) ==
    IF raw = "ok" /\ \A k \in 1..Len(rows) : rows[k].id # notificationId
    THEN "notok" ELSE raw

\* the methods of the object createClient returns and of the object its
\* from(table) returns, in each implementation
ClientMethods ==
    [index |-> {"from"}, lib |-> {"from"}]
TableMethods ==
    [index |-> {"select", "eq", "like", "gte", "lt", "limit", "order",
                "execute", "insert", "delete"},
     lib   |-> {"select", "eq", "gt", "lt", "order", "limit", "execute",
                "insert", "update"}]

\* the calls each implementation makes on the client and on the table for
\* the ledger query of checkRecentlySent and for the record of a send
QueryCalls ==
    [index |-> [client |-> {"from"},
                table |-> {"select", "eq", "gte", "limit", "execute"}],
     lib   |-> [client |-> {"from"},
                table |-> {"select", "eq", "gte", "limit", "execute"}]]
TrackCalls ==
    [index |-> [client |-> {"from"}, table |-> {"insert"}],
     lib   |-> [client |-> {"insert"}, table |-> {}]]

\* the calls are calls of methods the objects have
Callable(b, calls) ==
    /\ calls.client \subseteq ClientMethods[b]
    /\ calls.table \subseteq TableMethods[b]

\* what becomes of a request: the store answers it, or the call of a method
\* that does not exist raises a TypeError and no request is made
Requests(b, calls) ==
    IF Callable(b, calls) THEN {"ok", "notok", "throw"} ELSE {"TypeError"}

\* the outcome of a request as its caller sees it
Outcome(r) == IF r.error THEN "error" ELSE "ok"

\* history: how the store answered, a refusal and a network failure taken
\* together
Answer(raw) == IF raw \in {"notok", "throw"} THEN "error" ELSE raw

----------------------------------------------------------------------------
(* runNotificationCheck *)

\* lines 635-651: the locals of call number runs of runNotificationCheck,
\* entered at instant t; the pass reads the clock once
EnterPass(runs, t) ==
    [Idle EXCEPT !.pc = "fetch", !.runs = runs, !.pass = npass + 1,
                 !.ledgerAtStart = Len(sent_notifications),
                 !.kstTime = getKSTTime(t), !.trigger = "scheduled"]

\* the passes that are running while invocation i enters a new one
Overlapping(i) ==
    {{npass + 1, inv[j].pass} : j \in {k \in Invocations : k # i /\ Running(k)}}

\* lines 579-587: the handler starts and calls runNotificationCheck.
\* Invocations are interchangeable, so a new one takes the lowest idle place.
StartPass(i) ==
    /\ inv[i].pc = "idle"
    /\ \A j \in 1..(i - 1) : Running(j)
    /\ limits.alone => \A j \in Invocations : ~Running(j)
    /\ npass < limits.passes
    /\ inv' = [inv EXCEPT ![i] = EnterPass(1, now)]
    /\ started' = Append(started, now)
    /\ overlaps' = overlaps \cup Overlapping(i)
    /\ UNCHANGED <<now, weekly_notifications, sent_notifications, slack,
                   nfault, failed, limits, env, build, executionLogs>>

\* mutant: the filter on is_active is left out
ActiveNotifications_All(rows) == rows

\* mutant: the filter selects the inactive rules
ActiveNotifications_Inactive(rows) == SelectSeq(rows, LAMBDA n : ~n.is_active)

\* .eq('is_active', true)
ActiveNotifications(rows) == SelectSeq(rows, LAMBDA n : n.is_active)

\* notifications.filter(checkDayMatch)
TodaysNotifications(rows, dayNumber, dayName) ==
    SelectSeq(rows, LAMBDA n : checkDayMatch(n.day_of_week, dayNumber, dayName))

\* dbDay.toString() of a row without day_of_week raises a TypeError
RaisesTypeError(data) ==
    \E k \in 1..Len(data) : "day_of_week" \notin DOMAIN data[k]

\* mutant: the catch clause passes the error on
runNotificationCheck_catch_Rethrows(error) == "threw"

\* lines 711-713: the catch clause of runNotificationCheck logs the error
\* and the function returns
runNotificationCheck_catch(error) == "returned"

\* lines 653-676: read the active rules, keep those of today
FetchRules(i) ==
    /\ inv[i].pc = "fetch"
    /\ \E raw \in StoreAnswers :
        /\ Possible(raw)
        /\ nfault' = Faults(raw)
        /\ LET r == execute(raw, ActiveNotifications(weekly_notifications))
               todays == TodaysNotifications(r.data, currentDayOfWeek(i),
                                             currentDayName(i))
           IN  inv' = [inv EXCEPT ![i] =
                   IF r.error
                   THEN [@ EXCEPT !.pc = "returned", !.fetched = Answer(raw)]
                   ELSE IF RaisesTypeError(r.data)
                   THEN [@ EXCEPT !.pc = runNotificationCheck_catch("TypeError"),
                                  !.fetched = Answer(raw)]
                   ELSE IF Len(todays) = 0
                   THEN [@ EXCEPT !.pc = "returned", !.fetched = Answer(raw)]
                   ELSE [@ EXCEPT !.pc = "filter", !.fetched = Answer(raw),
                                  !.todaysNotifications = todays]]
    /\ UNCHANGED <<now, weekly_notifications, sent_notifications, slack,
                   started, overlaps, failed, limits, env, build, executionLogs>>

\* mutant: the distance is taken around midnight, the shorter way
timeDiffOf_Wraparound(current, notificationTime) ==
    LET d == Abs(timeToMinutes(current) - timeToMinutes(notificationTime))
    IN  IF d > 12 * 60 THEN 24 * 60 - d ELSE d

\* const timeDiff = Math.abs(timeToMinutes(currentTime) - timeToMinutes(notificationTime))
timeDiffOf(current, notificationTime) ==
    Abs(timeToMinutes(current) - timeToMinutes(notificationTime))

\* mutant: the window is one minute too narrow
OutsideWindow_Narrow(timeDiff) == timeDiff >= ToleranceMinutes

\* mutant: the window is one minute too wide
OutsideWindow_Wide(timeDiff) == timeDiff > ToleranceMinutes + 1

\* if (timeDiff > 15) continue
OutsideWindow(timeDiff) == timeDiff > ToleranceMinutes

----------------------------------------------------------------------------
(* checkRecentlySent *)

\* mutant: the short cooldown applies at every distance
cooldownMinutes_AlwaysShort(timeDiff) == ShortCooldownMinutes

\* mutant: the short cooldown applies up to a distance of five minutes
cooldownMinutes_CloseUpTo5(timeDiff) ==
    IF timeDiff <= 5 THEN ShortCooldownMinutes ELSE LongCooldownMinutes

\* mutant: the close range ends one minute early
cooldownMinutes_OffByOne(timeDiff) ==
    IF timeDiff < CloseDistanceThreshold
    THEN ShortCooldownMinutes ELSE LongCooldownMinutes

\* const cooldownMinutes = timeDiff <= 2 ? 5 : 15
cooldownMinutes(timeDiff) ==
    IF timeDiff <= CloseDistanceThreshold
    THEN ShortCooldownMinutes ELSE LongCooldownMinutes

\* mutant: the cooldown is subtracted as seconds
cooldownTime_Seconds(dateNow, timeDiff) == dateNow - cooldownMinutes(timeDiff)

\* new Date(Date.now() - cooldownMinutes * 60 * 1000)
cooldownTime(dateNow, timeDiff) == dateNow - cooldownMinutes(timeDiff) * 60

\* mutant: gt in place of gte
recentSent_Exclusive(rows, notificationId, since) ==
    SelectSeq(rows, LAMBDA r : r.notification_id = notificationId
                               /\ r.sent_at > since)

\* mutant: lt in place of gte
recentSent_OlderThan(rows, notificationId, since) ==
    SelectSeq(rows, LAMBDA r : r.notification_id = notificationId
                               /\ r.sent_at < since)

\* from('sent_notifications').eq('notification_id', id).gte('sent_at', since):
\* the rows the query matches (limit(1) returns one of them)
recentSent(rows, notificationId, since) ==
    SelectSeq(rows, LAMBDA r : r.notification_id = notificationId
                               /\ r.sent_at >= since)

\* mutant: one matching row is not enough
checkRecentlySent_NeedsTwo(rows, notificationId, timeDiff, dateNow, o) ==
    IF o # "ok" THEN FALSE
    ELSE Len(SelectSeq(rows, LAMBDA r :
                 r.notification_id = notificationId
                 /\ r.sent_at >= dateNow - (IF timeDiff <= 2 THEN 5 ELSE 15) * 60)) > 1

\* mutant: a query that failed counts as a recent record
checkRecentlySent_FailClosed(rows, notificationId, timeDiff, dateNow, o) ==
    IF o # "ok" THEN TRUE
    ELSE Len(recentSent(rows, notificationId,
                        cooldownTime(dateNow, timeDiff))) > 0

\* the result of checkRecentlySent when the query ends with outcome o
checkRecentlySent(rows, notificationId, timeDiff, dateNow, o) ==
    IF o # "ok" THEN FALSE
    ELSE Len(recentSent(rows, notificationId,
                        cooldownTime(dateNow, timeDiff))) > 0

\* where the pass goes when the filter loop has consumed its last rule
AfterFilter(matching) == IF Len(matching) = 0 THEN "returned" ELSE "send"

\* mutant: a rule is sent as soon as it is approved
AfterCheck_SendAtOnce(rest, matching) ==
    IF matching # <<>> THEN "send"
    ELSE IF rest = <<>> THEN "returned" ELSE "filter"

\* lines 678-706: the filter loop goes on to the next rule of today, and the
\* send loop starts when there is none left
AfterCheck(rest, matching) ==
    IF rest = <<>> THEN AfterFilter(matching) ELSE "filter"

\* lines 681-702: one iteration of the filter loop
CheckRule(i) ==
    /\ inv[i].pc = "filter"
    /\ LET notification == Head(inv[i].todaysNotifications)
           rest == Tail(inv[i].todaysNotifications)
           timeDiff == timeDiffOf(currentTime(i), notification.time)
       IN  IF OutsideWindow(timeDiff)
           THEN /\ inv' = [inv EXCEPT ![i] =
                      [@ EXCEPT !.todaysNotifications = rest,
                                !.checked = Append(@,
                                    [id |-> notification.id, timeDiff |-> timeDiff,
                                     at |-> now, since |-> now, outcome |-> "none",
                                     verdict |-> "outside"]),
                                !.pc = AfterCheck(rest,
                                           inv[i].matchingNotifications)]]
                /\ nfault' = nfault
           ELSE \E raw \in Requests(build, QueryCalls[build]) :
                /\ raw = "TypeError" \/ Possible(raw)
                /\ nfault' = IF raw = "TypeError" THEN nfault ELSE Faults(raw)
                /\ LET o == IF raw = "TypeError" THEN "error"
                            ELSE Outcome(execute(raw, <<>>))
                       wasRecentlySent ==
                           checkRecentlySent(sent_notifications, notification.id,
                                             timeDiff, now, o)
                       matching ==
                           IF wasRecentlySent THEN inv[i].matchingNotifications
                           ELSE Append(inv[i].matchingNotifications, notification)
                   IN  inv' = [inv EXCEPT ![i] =
                          [@ EXCEPT !.todaysNotifications = rest,
                                    !.matchingNotifications = matching,
                                    !.checked = Append(@,
                                        [id |-> notification.id,
                                         timeDiff |-> timeDiff, at |-> now,
                                         since |-> cooldownTime(now, timeDiff),
                                         outcome |-> o,
                                         verdict |-> IF wasRecentlySent
                                                     THEN "recent" ELSE "match"]),
                                    !.pc = AfterCheck(rest, matching)]]
    /\ UNCHANGED <<now, weekly_notifications, sent_notifications, slack,
                   started, overlaps, failed, limits, env, build, executionLogs>>

----------------------------------------------------------------------------
(* sendSlackNotification *)

\* where the pass goes when the send loop is done with its first rule
AfterSend(matching) == IF Len(matching) <= 1 THEN "returned" ELSE "send"

\* the webhook accepts the message it answers with a success status
Accepted(response) == response = "ok"

\* mutant: the status of the response is not looked at
responseOk_IgnoresStatus(response) == response # "throw"

\* mutant: the record is written whatever became of the request
responseOk_Always(response) == TRUE

\* if (!response.ok) return; a fetch that throws goes to the catch clause
responseOk(response) == response = "ok"

\* mutant: the words in double braces are taken out of the message
bodyText_Stripped(message) ==
    SelectSeq(message,
              LAMBDA w : w \notin {"{{branch_version}}", "{{emoji_this_week}}"})

\* line 772: text: message
bodyText(message) == message

\* mutant: only a binding that is absent counts as missing, an empty one
\* does not
webhookMissing_OnlyUndefined(bindings) ==
    "SLACK_WEBHOOK_URL" \notin DOMAIN bindings

\* mutant: a worker without a webhook posts all the same
webhookMissing_Never(bindings) == FALSE

\* if (!env.SLACK_WEBHOOK_URL) return
webhookMissing(bindings) == bindings.SLACK_WEBHOOK_URL = ""

\* what the webhook can answer to a request; without a webhook no request
\* is made
Responses == IF webhookMissing(env) THEN {"unsent"} ELSE {"ok", "notok", "throw"}

\* mutant: the record goes to the rule table
TrackTable_Rules == "weekly_notifications"

\* supabase.from('sent_notifications').insert
TrackTable == "sent_notifications"

\* lines 757-784: post the message of the next approved rule to the
\* webhook, if the worker has one
SendSlack(i) ==
    /\ inv[i].pc = "send"
    /\ LET notification == Head(inv[i].matchingNotifications)
       IN  \E response \in Responses :
            /\ response = "unsent" \/ Possible(response)
            /\ nfault' = IF response = "unsent" THEN nfault ELSE Faults(response)
            /\ slack' = IF Accepted(response)
                         THEN Append(slack,
                                  [text |-> bodyText(notification.message),
                                   notification_id |-> notification.id,
                                   at |-> now, pass |-> inv[i].pass])
                         ELSE slack
            /\ failed' = IF Accepted(response) \/ response = "unsent" THEN failed
                          ELSE failed \cup {[id |-> notification.id,
                                             pass |-> inv[i].pass]}
            /\ IF response # "unsent" /\ responseOk(response)
               THEN inv' = [inv EXCEPT ![i] =
                          [@ EXCEPT !.pc = "track",
                                    !.dispatched = Append(@,
                                        [id |-> notification.id,
                                         response |-> response,
                                         tracked |-> "pending"])]]
               ELSE inv' = [inv EXCEPT ![i] =
                          [@ EXCEPT !.pc = AfterSend(inv[i].matchingNotifications),
                                    !.matchingNotifications = Tail(@),
                                    !.dispatched = Append(@,
                                        [id |-> notification.id,
                                         response |-> response,
                                         tracked |-> "none"])]]
    /\ UNCHANGED <<now, weekly_notifications, sent_notifications, started,
                   overlaps, limits, env, build, executionLogs>>

\* lines 786-803: insert the delivery record of the message just sent
TrackSent(i) ==
    /\ inv[i].pc = "track"
    /\ LET notification == Head(inv[i].matchingNotifications)
           row == [notification_id |-> notification.id, sent_at |-> now,
                   pass |-> inv[i].pass]
       IN  \E raw \in Requests(build, TrackCalls[build]) :
            /\ raw = "TypeError" \/ Possible(raw)
            /\ nfault' = IF raw = "TypeError" THEN nfault ELSE Faults(raw)
            /\ LET insertError ==
                       \/ raw = "TypeError"
                       \/ insert(Refused(raw, weekly_notifications,
                                         notification.id))
               IN  /\ sent_notifications' =
                          IF insertError THEN sent_notifications
                          ELSE Inserted("sent_notifications", sent_notifications,
                                        TrackTable, row)
                   /\ weekly_notifications' =
                          IF insertError THEN weekly_notifications
                          ELSE Inserted("weekly_notifications",
                                        weekly_notifications, TrackTable, row)
                   /\ inv' = [inv EXCEPT ![i] =
                          [@ EXCEPT !.pc = AfterSend(inv[i].matchingNotifications),
                                    !.matchingNotifications = Tail(@),
                                    !.dispatched =
                                        [@ EXCEPT ![Len(@)].tracked =
                                            IF insertError THEN "error"
                                            ELSE "ok"]]]
    /\ UNCHANGED <<now, slack, started, overlaps, failed, limits, env, build, executionLogs>>

----------------------------------------------------------------------------
(* scheduled *)

\* mutant: the handler retries whenever its first run has ended
Retries_AnyResult(result, runs) == runs = 1

\* lines 586-601: the second call of runNotificationCheck is in the catch
\* clause of the first, and the catch clause of the second calls nothing
Retries(result, runs) == result = "threw" /\ runs = 1

\* lines 588-601: runNotificationCheck has returned or raised.  The handler
\* ends, or waits for the delay and calls runNotificationCheck once more.
scheduled(i) ==
    /\ inv[i].trigger = "scheduled"
    /\ inv[i].pc \in {"returned", "threw"}
    /\ IF Retries(inv[i].pc, inv[i].runs)
       THEN /\ npass < limits.passes
            /\ now' = now + RetryDelaySeconds
            /\ inv' = [inv EXCEPT ![i] = EnterPass(inv[i].runs + 1, now')]
            /\ started' = Append(started, now')
            /\ overlaps' = overlaps \cup Overlapping(i)
       ELSE /\ inv' = [inv EXCEPT ![i].pc = "idle"]
            /\ UNCHANGED <<now, started, overlaps>>
    /\ UNCHANGED <<weekly_notifications, sent_notifications, slack, nfault,
                   failed, limits, env, build, executionLogs>>

----------------------------------------------------------------------------
(* The clock *)

\* one minute passes; a running pass spans at most limits.ticks of them, the
\* clock is followed only as long as a pass runs or can still start, and a
\* handler whose runNotificationCheck has returned ends within the minute
Tick ==
    /\ now < limits.last
    /\ npass < limits.passes \/ \E i \in Invocations : Running(i)
    /\ \A i \in Invocations : inv[i].pc # "returned"
    /\ \A i \in Invocations :
          Running(i) => now + 60 - StartedAt(i) <= limits.ticks * 60
    /\ now' = now + 60
    /\ UNCHANGED <<weekly_notifications, sent_notifications, slack, inv,
                   started, nfault, overlaps, failed, limits, env, build, executionLogs>>

Next ==
    \/ Tick
    \/ \E i \in Invocations : StartPass(i)
    \/ \E i \in Invocations : FetchRules(i)
    \/ \E i \in Invocations : CheckRule(i)
    \/ \E i \in Invocations : SendSlack(i)
    \/ \E i \in Invocations : TrackSent(i)
    \/ \E i \in Invocations : scheduled(i)

Spec == Init /\ [][Next]_vars

SpecSeq == InitSeq /\ [][Next]_vars

\* as InitSeq, with one more pass and every I/O call succeeding
InitLedger ==
    /\ Deployed(FirstInstant, Rules)
    /\ limits = [passes |-> MaxLedgerPasses, faults |-> 0, alone |-> TRUE,
                 ticks |-> 0, last |-> LastInstant, forced |-> 0]

SpecLedger == InitLedger /\ [][Next]_vars

\* either implementation is deployed; the passes follow one another and
\* each is over within the minute
InitBuilds ==
    \E b \in Builds :
        /\ DeployedAs(b, FirstInstant, Rules)
        /\ limits = [passes |-> MaxSeqPasses, faults |-> MaxFaults,
                     alone |-> TRUE, ticks |-> 0, last |-> LastInstant,
                     forced |-> 0]

SpecBuilds == InitBuilds /\ [][Next]_vars

\* as Init, each pass over within the minute
InitLive ==
    /\ Deployed(FirstInstant, Rules)
    /\ limits = [passes |-> MaxPasses, faults |-> MaxFaults, alone |-> FALSE,
                 ticks |-> 0, last |-> LastInstant, forced |-> 0]

\* the ways a day of the week d is written in day_of_week: its number and
\* its name, in lower case, capitalised and in upper case, bare and with
\* blanks around
DayForms(d) ==
    LET name == dayNames[d + 1]
        upper == [k \in 1..Len(name) |->
                     UpperCase[CHOOSE j \in 1..26 : LowerCase[j] = name[k]]]
        bare == {toString(d), name, <<upper[1]>> \o Tail(name), upper}
    IN  bare \cup {<<" ">> \o f \o <<" ", " ">> : f \in bare}

\* the times of day a rule is due at: in the morning, and on either side of
\* midnight
InputTimes == {DueTime, <<23, 58, 0>>, <<0, 2, 0>>}

\* one rule, due on any day written in any way or on no day at all
InputRules ==
    {[id |-> "n1", message |-> <<"m1">>, day_of_week |-> f, time |-> t,
      is_active |-> TRUE] :
        f \in UNION {DayForms(d) : d \in 0..6} \cup {<<"7">>, <<"m", "o", "n">>},
        t \in InputTimes}

\* a worker with one rule, deployed on any day at one of the times of day,
\* which runs one pass, at once or a minute later
InitInputs ==
    \E rule \in InputRules, d \in 0..6, t \in InputTimes :
        /\ Deployed(OccurrenceAt(d, t), <<rule>>)
        /\ limits = [passes |-> 1, faults |-> MaxFaults, alone |-> TRUE,
                     ticks |-> 0, last |-> OccurrenceAt(d, t) + 60, forced |-> 0]

SpecInputs == InitInputs /\ [][Next]_vars

\* seconds fields of a time of day, and the minutes of Monday morning that
\* a pass is started in: around each edge of the window of a rule due at
\* 09:00, and at the rule's own minute
InputSeconds == {0, 1, 30, 59}
InputMinutes == {<<8, 44>>, <<8, 45>>, <<9, 0>>, <<9, 15>>, <<9, 16>>}

\* a worker with one rule due on Monday at 09:00 and any of the seconds,
\* deployed on Monday at any second of one of the minutes, which runs one
\* pass, at once or a minute later
InitSeconds ==
    \E rs \in InputSeconds, m \in InputMinutes, s \in InputSeconds :
        /\ Deployed(OccurrenceAt(1, <<m[1], m[2], s>>),
                    <<[id |-> "n1", message |-> <<"m1">>,
                       day_of_week |-> <<"1">>, time |-> <<9, 0, rs>>,
                       is_active |-> TRUE]>>)
        /\ limits = [passes |-> 1, faults |-> MaxFaults, alone |-> TRUE,
                     ticks |-> 0,
                     last |-> OccurrenceAt(1, <<m[1], m[2], s>>) + 60,
                     forced |-> 0]

SpecSeconds == InitSeconds /\ [][Next]_vars

\* rows of weekly_notifications around midnight of UTC+9: two rules of
\* Monday, due at 23:59 and at 23:50, and one of Tuesday due at 00:00
MidnightRules ==
    << [id |-> "n1", message |-> <<"m1">>, day_of_week |-> <<"1">>,
        time |-> <<23, 59, 0>>, is_active |-> TRUE],
       [id |-> "n2", message |-> <<"m2">>, day_of_week |-> <<"1">>,
        time |-> <<23, 50, 0>>, is_active |-> TRUE],
       [id |-> "n3", message |-> <<"m3">>, day_of_week |-> <<"2">>,
        time |-> <<0, 0, 0>>, is_active |-> TRUE] >>

\* the instants the worker is deployed at: Monday 23:59:00 and 23:59:59,
\* and Tuesday 00:00:00, in UTC+9
MidnightStarts ==
    {OccurrenceAt(1, <<23, 59, 0>>), OccurrenceAt(1, <<23, 59, 59>>),
     OccurrenceAt(2, <<0, 0, 0>>)}

\* a worker deployed just before or at midnight of UTC+9, whose passes
\* follow one another and may span the turn of the minute
InitMidnight ==
    \E t \in MidnightStarts :
        /\ Deployed(t, MidnightRules)
        /\ limits = [passes |-> MaxPasses, faults |-> MaxFaults,
                     alone |-> TRUE, ticks |-> MaxPassTicks,
                     last |-> t + 60, forced |-> 0]

SpecMidnight == InitMidnight /\ [][Next]_vars

\* a step of the handler of invocation i
HandlerStep(i) ==
    FetchRules(i) \/ CheckRule(i) \/ SendSlack(i) \/ TrackSent(i) \/ scheduled(i)

\* every await of a handler ends (with an answer or with a failure) and the
\* runtime then resumes the handler: a handler that can take a step does
SpecLive ==
    /\ InitLive
    /\ [][Next]_vars
    /\ \A i \in Invocations : WF_vars(HandlerStep(i))

----------------------------------------------------------------------------
(* fetch: the routes that run a pass or write to the tables *)

\* how many of a handler's I/O calls failed
Failures(calls) ==
    Cardinality({k \in DOMAIN calls : calls[k] \notin {"ok", "unsent"}})

\* the outcomes of the calls of one handler are possible together
PossibleAll(calls) == nfault + Failures(calls) <= limits.faults

\* where handlers are served one after the other, none is running
Served == limits.alone => \A j \in Invocations : ~Running(j)

\* /test and /heartbeat: the handler calls runNotificationCheck, in no try
\* block.  Bounded like a pass the timer starts.
ManualPass(i, route) ==
    /\ inv[i].pc = "idle"
    /\ \A j \in 1..(i - 1) : Running(j)
    /\ limits.alone => \A j \in Invocations : ~Running(j)
    /\ npass < limits.passes
    /\ inv' = [inv EXCEPT ![i] = [EnterPass(1, now) EXCEPT !.trigger = route]]
    /\ started' = Append(started, now)
    /\ overlaps' = overlaps \cup Overlapping(i)
    /\ UNCHANGED <<now, weekly_notifications, sent_notifications, slack,
                   nfault, failed, limits, env, build, executionLogs>>

\* lines 410-415
fetch_test(i) == ManualPass(i, "/test")

\* lines 471-491
fetch_heartbeat(i) == ManualPass(i, "/heartbeat")

\* lines 414 and 479: runNotificationCheck is over and the handler answers;
\* an error it raised would leave the handler with it
fetch_respond(i) ==
    /\ inv[i].trigger \in {"/test", "/heartbeat"}
    /\ inv[i].pc \in {"returned", "threw"}
    /\ inv' = [inv EXCEPT ![i].pc = "idle"]
    /\ UNCHANGED <<now, weekly_notifications, sent_notifications, slack,
                   started, nfault, overlaps, failed, limits, env, build, executionLogs>>

\* mutant: the last count rows
limit_Last(count, rows) ==
    IF Len(rows) <= count THEN rows
    ELSE SubSeq(rows, Len(rows) - count + 1, Len(rows))

\* .limit(count): the first count rows, in store order
limit(count, rows) ==
    IF Len(rows) <= count THEN rows ELSE SubSeq(rows, 1, count)


\* line 423: .eq('is_active', true).limit(1)
forceTestNotifications(rows) == limit(1, ActiveNotifications(rows))

\* messages /force-test has posted
ForcedPosts == {k \in 1..Len(slack) : slack[k].pass = 0}

\* lines 417-440 with sendSlackNotification: read the first active rule and
\* send it.  The message and the record carry pass 0: no pass wrote them.
fetch_force_test ==
    /\ Served
    /\ Cardinality(ForcedPosts) < limits.forced
    /\ \E raw \in StoreAnswers, response \in Responses,
          tracked \in {"ok", "notok", "throw"} :
        LET r == execute(raw, forceTestNotifications(weekly_notifications))
            found == ~r.error /\ Len(r.data) > 0
            notification == r.data[1]
            notificationId ==
                IF "id" \in DOMAIN notification THEN notification.id
                ELSE "undefined"
            sent == found /\ response # "unsent" /\ responseOk(response)
            calls == IF ~found THEN <<raw>>
                     ELSE IF ~sent THEN <<raw, response>>
                     ELSE <<raw, response, tracked>>
            insertError ==
                insert(Refused(tracked, weekly_notifications, notificationId))
            row == [notification_id |-> notificationId, sent_at |-> now,
                    pass |-> 0]
        IN  /\ PossibleAll(calls)
            /\ ~found => response = CHOOSE x \in Responses : TRUE
            /\ ~sent => tracked = "ok"
            /\ nfault' = nfault + Failures(calls)
            /\ slack' = IF found /\ Accepted(response)
                         THEN Append(slack,
                                  [text |-> bodyText(notification.message),
                                   notification_id |-> notificationId,
                                   at |-> now, pass |-> 0])
                         ELSE slack
            /\ failed' = IF found /\ response \in {"notok", "throw"}
                          THEN failed \cup {[id |-> notificationId, pass |-> 0]}
                          ELSE failed
            /\ sent_notifications' =
                  IF sent /\ ~insertError
                  THEN Inserted("sent_notifications", sent_notifications,
                                TrackTable, row)
                  ELSE sent_notifications
            /\ weekly_notifications' =
                  IF sent /\ ~insertError
                  THEN Inserted("weekly_notifications", weekly_notifications,
                                TrackTable, row)
                  ELSE weekly_notifications
    /\ UNCHANGED <<now, inv, started, overlaps, limits, env, build, executionLogs>>

\* the ids the store gives the five rows of /create-test-now
TestIds == <<"t1", "t2", "t3", "t4", "t5">>

\* lines 892-938: the minutes between the clock and the time of each rule
TestOffsets == <<0, -5, 2, 10, 20>>

\* what the message of each rule says after "Test notification -"; the time
\* it also shows is left out
TestWords ==
    << <<"Current", "time">>, <<"5", "min", "ago">>, <<"2", "min", "future">>,
       <<"10", "min", "future">>, <<"20", "min", "future">> >>

\* lines 884-938: testNotifications of a worker whose clock reads kstTime:
\* every rule is of today, its time is the clock's shifted by its offset
testNotifications(kstTime) ==
    [k \in 1..5 |->
        [id |-> TestIds[k],
         message |-> <<"Test", "notification", "-">> \o TestWords[k],
         day_of_week |-> toString(getDay(kstTime)),
         time |-> formatTime(kstTime + TestOffsets[k] * SecondsPerMinute),
         is_active |-> TRUE]]

\* the table holds rows of /create-test-now
TestRulesStored ==
    \E k \in 1..Len(weekly_notifications), j \in 1..5 :
        weekly_notifications[k].id = TestIds[j]

\* lines 880-974: insert the five test rules.  Bounded to one set of test
\* rules in the table at a time.
createTestNotification ==
    /\ Served
    /\ ~TestRulesStored
    /\ \E raw \in {"ok", "notok", "throw"} :
        /\ Possible(raw)
        /\ nfault' = Faults(raw)
        /\ weekly_notifications' =
              IF insert(raw) THEN weekly_notifications
              ELSE weekly_notifications \o testNotifications(getKSTTime(now))
    /\ UNCHANGED <<now, sent_notifications, slack, inv, started, overlaps,
                   failed, limits, env, build, executionLogs>>

\* column LIKE '%phrase%': the phrase occurs in the text, word for word
like(text, phrase) ==
    \E k \in 0..(Len(text) - Len(phrase)) :
        SubSeq(text, k + 1, k + Len(phrase)) = phrase

\* ON DELETE CASCADE: the records whose rule is still among rows
Cascade(records, rows) ==
    SelectSeq(records,
              LAMBDA r : \E k \in 1..Len(rows) : rows[k].id = r.notification_id)

\* mutant: every record written before the request is old
oldTime_Now(dateNow) == dateNow

\* line 991: 24 hours before the clock
oldTime(dateNow) == dateNow - 24 * 60 * 60

\* lines 976-1003: delete the rules whose message says "Test notification",
\* their records going with them, then the records older than 24 hours.  A
\* failure of the first request ends the handler, one of the second goes
\* unnoticed.
cleanupTestNotifications ==
    /\ Served
    /\ \E raw \in {"ok", "notok", "throw"}, rawSent \in {"ok", "notok", "throw"} :
        LET kept == SelectSeq(weekly_notifications,
                       LAMBDA n : ~like(n.message, <<"Test", "notification">>))
            cascaded == Cascade(sent_notifications, kept)
            calls == IF raw = "ok" THEN <<raw, rawSent>> ELSE <<raw>>
        IN  /\ PossibleAll(calls)
            /\ raw # "ok" => rawSent = "ok"
            /\ nfault' = nfault + Failures(calls)
            /\ weekly_notifications' =
                  IF raw = "ok" THEN kept ELSE weekly_notifications
            /\ sent_notifications' =
                  IF raw # "ok" THEN sent_notifications
                  ELSE IF rawSent # "ok" THEN cascaded
                  ELSE SelectSeq(cascaded,
                                 LAMBDA r : ~(r.sent_at < oldTime(now)))
    /\ UNCHANGED <<now, slack, inv, started, overlaps, failed, limits, env, build, executionLogs>>

NextRoutes ==
    \/ Next
    \/ \E i \in Invocations : fetch_test(i)
    \/ \E i \in Invocations : fetch_heartbeat(i)
    \/ \E i \in Invocations : fetch_respond(i)
    \/ fetch_force_test
    \/ createTestNotification
    \/ cleanupTestNotifications

\* the day and time the worker with routes is deployed at: on Monday when n1
\* has been due for five minutes and n2 is due in fifteen, and on Tuesday six
\* minutes before midnight
RouteStarts == {<<1, <<9, 5, 20>>>>, <<2, <<23, 54, 20>>>>}

\* the record of n1 the week before
LastWeek ==
    [notification_id |-> "n1",
     sent_at |-> OccurrenceAt(1, DueTime) - 7 * SecondsPerDay, pass |-> 0]

\* a worker whose routes are called is deployed at one of these instants,
\* with or without a webhook, the ledger holding last week's record;
\* requests are served one after the other, each within the minute
InitRoutes ==
    \E s \in RouteStarts, url \in {"", "https://hooks.slack.com/services"} :
        /\ now = OccurrenceAt(s[1], s[2])
        /\ weekly_notifications = Rules
        /\ sent_notifications = <<LastWeek>>
        /\ slack = <<>>
        /\ inv = [i \in Invocations |-> Idle]
        /\ started = <<>>
        /\ nfault = 0
        /\ overlaps = {}
        /\ failed = {}
        /\ env = [SLACK_WEBHOOK_URL |-> url]
        /\ build = "index"
        /\ executionLogs = <<>>
        /\ limits = [passes |-> MaxPasses, faults |-> MaxFaults,
                     alone |-> TRUE, ticks |-> 0,
                     last |-> OccurrenceAt(s[1], s[2]) + RouteMinutes * 60,
                     forced |-> MaxForceTests]

SpecRoutes == InitRoutes /\ [][NextRoutes]_vars

----------------------------------------------------------------------------
(* The sent_this_week implementation (src/unnamed/part_008) *)

\* return timeDiff <= 5
WeeklyWindowMinutes == 5

\* minutes the clock of the sent_this_week worker is followed for
WeeklyMinutes == 2

\* rows of weekly_notifications with the sent_this_week column: two rules of
\* Monday, due at 09:00 and at 09:03, one of Tuesday and an inactive one,
\* none sent this week
WeeklyRules ==
    << [id |-> "n1", message |-> <<"m1">>, day_of_week |-> 1,
        time |-> DueTime, is_active |-> TRUE, sent_this_week |-> FALSE,
        emoji_this_week |-> ":tada:"],
       [id |-> "n2", message |-> <<"m2">>, day_of_week |-> 1,
        time |-> <<9, 3, 0>>, is_active |-> TRUE, sent_this_week |-> FALSE,
        emoji_this_week |-> ":tada:"],
       [id |-> "n3", message |-> <<"m3">>, day_of_week |-> 2,
        time |-> DueTime, is_active |-> TRUE, sent_this_week |-> FALSE,
        emoji_this_week |-> ":tada:"],
       [id |-> "n4", message |-> <<"m4">>, day_of_week |-> 1,
        time |-> DueTime, is_active |-> FALSE, sent_this_week |-> FALSE,
        emoji_this_week |-> ":tada:"] >>

\* lines 48-54: .eq('is_active', true).eq('day_of_week', currentDayOfWeek)
\* .eq('sent_this_week', false), the rows the store selects
unsentOfToday(rows, dayNumber) ==
    SelectSeq(rows, LAMBDA n : /\ n.is_active
                               /\ n.day_of_week = dayNumber
                               /\ ~n.sent_this_week)

\* lines 68-71: notifications.filter(timeDiff <= 5)
withinWindow(rows, current) ==
    SelectSeq(rows, LAMBDA n :
                  timeDiffOf(current, n.time) <= WeeklyWindowMinutes)

\* line 95: `${notification.emoji_this_week} ${notification.message}`
weeklyText(notification) ==
    <<notification.emoji_this_week>> \o notification.message

\* the rows of the rule table with column sent_this_week set to value in
\* the rows the filter of the update selects, given by their ids
updated(rows, ids, value) ==
    [k \in 1..Len(rows) |->
        IF rows[k].id \in ids THEN [rows[k] EXCEPT !.sent_this_week = value]
        ELSE rows[k]]

\* lines 33-65: runNotificationCheck reads the unsent active rules of today
\* and keeps those within the window; the request that fails in the
\* network raises in the client and is caught at lines 81-83
weekly_fetch(i) ==
    /\ inv[i].pc = "fetch"
    /\ \E raw \in {"ok", "notok", "throw"} :
        /\ Possible(raw)
        /\ nfault' = Faults(raw)
        /\ LET notifications ==
                   unsentOfToday(weekly_notifications, getDay(inv[i].kstTime))
               matching == withinWindow(notifications, currentTime(i))
           IN  inv' = [inv EXCEPT ![i] =
                   IF raw # "ok"
                   THEN [@ EXCEPT !.pc = "returned", !.fetched = Answer(raw)]
                   ELSE [@ EXCEPT !.pc = AfterFilter(matching),
                                  !.fetched = "ok",
                                  !.todaysNotifications = notifications,
                                  !.matchingNotifications = matching]]
    /\ UNCHANGED <<now, weekly_notifications, sent_notifications, slack,
                   started, overlaps, failed, limits, env, build, executionLogs>>

\* lines 86-118: sendSlackNotification posts the message of the next rule,
\* if the worker has a webhook; it returns nothing and raises nothing
\* (lines 89-92, 115-117), and markNotificationSent follows it (line 78)
weekly_sendSlackNotification(i) ==
    /\ inv[i].pc = "send"
    /\ LET notification == Head(inv[i].matchingNotifications)
           answers == IF env.SLACK_WEBHOOK_URL_DEV = "" THEN {"unsent"}
                      ELSE {"ok", "notok", "throw"}
       IN  \E response \in answers :
            /\ response = "unsent" \/ Possible(response)
            /\ nfault' = IF response = "unsent" THEN nfault ELSE Faults(response)
            /\ slack' = IF Accepted(response)
                         THEN Append(slack,
                                  [text |-> weeklyText(notification),
                                   notification_id |-> notification.id,
                                   at |-> now, pass |-> inv[i].pass])
                         ELSE slack
            /\ failed' = IF Accepted(response) \/ response = "unsent" THEN failed
                          ELSE failed \cup {[id |-> notification.id,
                                             pass |-> inv[i].pass]}
            /\ inv' = [inv EXCEPT ![i] =
                   [@ EXCEPT !.pc = "mark",
                             !.dispatched = Append(@,
                                 [id |-> notification.id,
                                  response |-> response,
                                  tracked |-> "pending"])]]
    /\ UNCHANGED <<now, weekly_notifications, sent_notifications, started,
                   overlaps, limits, env, build, executionLogs>>

\* lines 120-136: markNotificationSent sets sent_this_week of the rule
markNotificationSent(i) ==
    /\ inv[i].pc = "mark"
    /\ LET notification == Head(inv[i].matchingNotifications)
       IN  \E raw \in {"ok", "notok", "throw"} :
            /\ Possible(raw)
            /\ nfault' = Faults(raw)
            /\ weekly_notifications' =
                  IF raw = "ok"
                  THEN updated(weekly_notifications, {notification.id}, TRUE)
                  ELSE weekly_notifications
            /\ inv' = [inv EXCEPT ![i] =
                   [@ EXCEPT !.pc = AfterSend(inv[i].matchingNotifications),
                             !.matchingNotifications = Tail(@),
                             !.dispatched =
                                 [@ EXCEPT ![Len(@)].tracked =
                                     IF raw = "ok" THEN "ok" ELSE "error"]]]
    /\ UNCHANGED <<now, sent_notifications, slack, started, overlaps, failed,
                   limits, env, build, executionLogs>>

\* lines 27-30: runNotificationCheck has returned and the handler ends
weekly_scheduled(i) ==
    /\ inv[i].pc = "returned"
    /\ inv' = [inv EXCEPT ![i].pc = "idle"]
    /\ UNCHANGED <<now, weekly_notifications, sent_notifications, slack,
                   started, nfault, overlaps, failed, limits, env, build, executionLogs>>

\* lines 138-158: /reset-weekly sets sent_this_week back to false in the
\* rows that have it true
resetWeeklyNotifications ==
    /\ \E raw \in {"ok", "notok", "throw"} :
        /\ Possible(raw)
        /\ nfault' = Faults(raw)
        /\ weekly_notifications' =
              IF raw = "ok"
              THEN updated(weekly_notifications,
                           {weekly_notifications[k].id :
                               k \in {m \in 1..Len(weekly_notifications) :
                                   weekly_notifications[m].sent_this_week}},
                           FALSE)
              ELSE weekly_notifications
    /\ UNCHANGED <<now, sent_notifications, slack, inv, started, overlaps,
                   failed, limits, env, build, executionLogs>>

NextWeekly ==
    \/ Tick
    \/ \E i \in Invocations : StartPass(i)
    \/ \E i \in Invocations : weekly_fetch(i)
    \/ \E i \in Invocations : weekly_sendSlackNotification(i)
    \/ \E i \in Invocations : markNotificationSent(i)
    \/ \E i \in Invocations : weekly_scheduled(i)
    \/ resetWeeklyNotifications

\* the sent_this_week worker is deployed on Monday at 08:59:20 in UTC+9,
\* with or without a webhook; its invocations are uncoordinated
InitWeekly ==
    \E url \in {"", "https://hooks.slack.com/services"} :
        /\ now = OccurrenceAt(1, <<8, 59, 20>>)
        /\ weekly_notifications = WeeklyRules
        /\ sent_notifications = <<>>
        /\ slack = <<>>
        /\ inv = [i \in Invocations |-> Idle]
        /\ started = <<>>
        /\ nfault = 0
        /\ overlaps = {}
        /\ failed = {}
        /\ env = [SLACK_WEBHOOK_URL_DEV |-> url]
        /\ build = "part_008"
        /\ executionLogs = <<>>
        /\ limits = [passes |-> MaxPasses, faults |-> MaxFaults,
                     alone |-> FALSE, ticks |-> MaxPassTicks,
                     last |-> OccurrenceAt(1, <<8, 59, 20>>)
                              + WeeklyMinutes * 60,
                     forced |-> 0]

SpecWeekly == InitWeekly /\ [][NextWeekly]_vars

(* The in-memory execution log (src/src/index.ts 392-404, 555-559) *)

\* const MAX_LOGS = 50
MAX_LOGS == 50

\* minutes the clock is followed for while the log is written
LogMinutes == 2

\* mutant: the entry is put at the end of the list
unshift_AtEnd(list, entry) == Append(list, entry)

\* executionLogs.unshift(logEntry)
unshift(list, entry) == <<entry>> \o list

\* executionLogs.pop()
pop(list) == SubSeq(list, 1, Len(list) - 1)

\* lines 397-398: `[${timestamp}] ${message}`, the timestamp read from the
\* clock when the entry is made
logEntry(timestamp, message) == [at |-> timestamp, message |-> message]

\* lines 399-402: the list after addLog has put the entry in
logged(list, entry) ==
    LET longer == unshift(list, entry)
    IN  IF Len(longer) > MAX_LOGS THEN pop(longer) ELSE longer

\* lines 396-404: addLog(message)
addLog ==
    /\ executionLogs' = logged(executionLogs, logEntry(now, "message"))
    /\ UNCHANGED <<now, weekly_notifications, sent_notifications, slack, inv,
                   started, nfault, overlaps, failed, limits, env, build>>

\* src/unnamed/part_009 lines 33-35: executionLogs.length = 0
clearExecutionLogs ==
    /\ executionLogs' = <<>>
    /\ UNCHANGED <<now, weekly_notifications, sent_notifications, slack, inv,
                   started, nfault, overlaps, failed, limits, env, build>>

\* lines 555-559: /clear-logs empties the list and logs that it did
clear_logs ==
    /\ executionLogs' = logged(<<>>, logEntry(now, "Logs cleared"))
    /\ UNCHANGED <<now, weekly_notifications, sent_notifications, slack, inv,
                   started, nfault, overlaps, failed, limits, env, build>>

NextLogs ==
    \/ Tick
    \/ addLog
    \/ clearExecutionLogs
    \/ clear_logs

\* the worker starts with an empty log; no pass runs while the log is
\* followed
InitLogs ==
    /\ now = OccurrenceAt(1, <<8, 59, 20>>)
    /\ weekly_notifications = <<>>
    /\ sent_notifications = <<>>
    /\ slack = <<>>
    /\ inv = [i \in Invocations |-> Idle]
    /\ started = <<>>
    /\ nfault = 0
    /\ overlaps = {}
    /\ failed = {}
    /\ env = [SLACK_WEBHOOK_URL |-> "https://hooks.slack.com/services"]
    /\ build = "index"
    /\ executionLogs = <<>>
    /\ limits = [passes |-> MaxPasses, faults |-> MaxFaults,
                 alone |-> TRUE, ticks |-> MaxPassTicks,
                 last |-> OccurrenceAt(1, <<8, 59, 20>>) + LogMinutes * 60,
                 forced |-> 0]

SpecLogs == InitLogs /\ [][NextLogs]_vars

----------------------------------------------------------------------------
(* What the properties are stated against: the calendar, independent of   *)
(* the program's own conversions                                          *)

\* the day of the week (0 = Sunday) each rule of the table is due on
DayOf == ("n1" :> 1) @@ ("n2" :> 1) @@ ("n3" :> 2) @@ ("n4" :> 1)

RuleOf(id) == weekly_notifications[
                 CHOOSE k \in 1..Len(weekly_notifications) :
                     weekly_notifications[k].id = id]

\* day of the week and minute of the day of instant t in UTC+9
DayKst(t) == ((t + 9 * 3600) \div 86400) % 7
MinuteKst(t) == ((t + 9 * 3600) % 86400) \div 60

\* minute of the day a rule is due at, and its distance from instant t
DueMinute(id) == RuleOf(id).time[1] * 60 + RuleOf(id).time[2]
Distance(id, t) == Abs(MinuteKst(t) - DueMinute(id))

\* the rule is a candidate of a pass that starts at instant t
Candidate(id, t) ==
    /\ RuleOf(id).is_active
    /\ DayOf[id] = DayKst(t)
    /\ Distance(id, t) <= 15

\* the instant of the rule's occurrence in the week of the model, and the
\* occurrence's candidate window [T - 15 min, T + 15 min]
DueAt(id) == DayOf[id] * 86400 + DueMinute(id) * 60 + RuleOf(id).time[3] - 9 * 3600
InOccurrence(id, t) == Abs(t - DueAt(id)) <= 15 * 60

\* positions of the messages sent, and of the records written, for the rule
\* during its occurrence
PostsIn(id) ==
    {k \in 1..Len(slack) :
        slack[k].notification_id = id /\ InOccurrence(id, slack[k].at)}
RecordsIn(id) ==
    {k \in 1..Len(sent_notifications) :
        /\ sent_notifications[k].notification_id = id
        /\ InOccurrence(id, sent_notifications[k].sent_at)}

PostsOf(id, pass) ==
    {k \in 1..Len(slack) :
        slack[k].notification_id = id /\ slack[k].pass = pass}
RecordsOf(id, pass) ==
    {k \in 1..Len(sent_notifications) :
        /\ sent_notifications[k].notification_id = id
        /\ sent_notifications[k].pass = pass}

Entries(log) == {log[k] : k \in 1..Len(log)}

\* the records of the rule that were in the ledger when pass of invocation i
\* started and that lie inside the cooldown window of check entry e
RecordsBefore(i, e) ==
    {k \in 1..inv[i].ledgerAtStart :
        /\ sent_notifications[k].notification_id = e.id
        /\ sent_notifications[k].sent_at >= e.since}

----------------------------------------------------------------------------
(* C1 *)

\* C1: over non-overlapping passes in which every store read, send and
\* insert succeeds, at most one message is sent and at most one record is
\* written for a rule during one occurrence's window [T-15 min, T+15 min].
C1_AtMostOncePerOccurrence ==
    (nfault = 0 /\ overlaps = {}) =>
        \A id \in RuleIds :
            Cardinality(PostsIn(id)) <= 1 /\ Cardinality(RecordsIn(id)) <= 1

(* C2 *)

\* C2: no state has two sends or two records for the same rule and the same
\* occurrence that come from two passes which overlapped in time (every I/O
\* call succeeding).
C2_AtMostOnceWhenOverlapping ==
    nfault = 0 =>
        \A id \in RuleIds :
            /\ \A k, l \in PostsIn(id) :
                  k # l => {slack[k].pass, slack[l].pass} \notin overlaps
            /\ \A k, l \in RecordsIn(id) :
                  k # l => {sent_notifications[k].pass,
                            sent_notifications[l].pass} \notin overlaps

(* C3 *)

\* C3, as stated: a pass B never tries to send a rule R for which a record,
\* inserted before B started, lies inside the cooldown window B computed.
C3_ReadAfterWrite_AsStated ==
    \A i \in Invocations :
        \A e \in Entries(inv[i].checked) :
            (e.verdict # "outside" /\ RecordsBefore(i, e) # {}) =>
                \A d \in Entries(inv[i].dispatched) : d.id # e.id

\* C3, amended: the same, provided B's ledger query for R succeeded.
C3_ReadAfterWrite ==
    \A i \in Invocations :
        \A e \in Entries(inv[i].checked) :
            (e.outcome = "ok" /\ RecordsBefore(i, e) # {}) =>
                /\ e.verdict = "recent"
                /\ \A d \in Entries(inv[i].dispatched) : d.id # e.id

\* a finished pass whose successful query found a record written before the
\* pass started, and which sent nothing for that rule
C3_Witness ==
    \E i \in Invocations :
        /\ inv[i].pc = "idle"
        /\ \E e \in Entries(inv[i].checked) :
              /\ e.outcome = "ok"
              /\ RecordsBefore(i, e) # {}
              /\ PostsOf(e.id, inv[i].pass) = {}

(* C4 *)

\* the second pass replays the first: both start in the same minute, one
\* after the other
Replay(i) ==
    /\ inv[i].pass = 2
    /\ overlaps = {}
    /\ started[2] \div 60 = started[1] \div 60

\* C4, as stated: the replayed pass sends nothing and records nothing for a
\* rule that has a record inside the cooldown window computed for it.
C4_Idempotent_AsStated ==
    \A i \in Invocations :
        Replay(i) =>
            \A e \in Entries(inv[i].checked) :
                (e.verdict # "outside" /\ RecordsBefore(i, e) # {}) =>
                    PostsOf(e.id, 2) = {} /\ RecordsOf(e.id, 2) = {}

\* C4, amended: the same, provided the replayed pass's ledger query for the
\* rule succeeded.
C4_Idempotent ==
    \A i \in Invocations :
        Replay(i) =>
            \A e \in Entries(inv[i].checked) :
                (e.outcome = "ok" /\ RecordsBefore(i, e) # {}) =>
                    PostsOf(e.id, 2) = {} /\ RecordsOf(e.id, 2) = {}

\* the first pass sent and recorded a rule, the replay has finished and sent
\* nothing
C4_Witness ==
    \E i \in Invocations :
        /\ Replay(i)
        /\ inv[i].pc = "idle"
        /\ \E e \in Entries(inv[i].checked) :
              /\ e.outcome = "ok"
              /\ RecordsBefore(i, e) # {}
              /\ PostsOf(e.id, 1) # {}
              /\ PostsOf(e.id, 2) = {}

(* C5 *)

C6_CooldownWindow ==
    \A i \in Invocations :
        \A e \in Entries(inv[i].checked) :
            e.verdict # "outside" =>
                /\ e.timeDiff \in 0..15
                /\ e.timeDiff = Distance(e.id, started[inv[i].pass])
                /\ e.since = e.at - (IF e.timeDiff <= 2 THEN 5 ELSE 15) * 60

\* both sides of the boundary: a check at distance 2 with the 5-minute
\* window and a check at distance 3 with the 15-minute window
C6_Witness ==
    \E i, j \in Invocations :
        /\ \E e \in Entries(inv[i].checked) :
              e.verdict # "outside" /\ e.timeDiff = 2 /\ e.since = e.at - 300
        /\ \E e \in Entries(inv[j].checked) :
              e.verdict # "outside" /\ e.timeDiff = 3 /\ e.since = e.at - 900

(* C7 *)

\* invocation i takes a step of its filter loop that queries the ledger
Checks(i) ==
    /\ inv[i].pc = "filter"
    /\ Len(inv'[i].checked) = Len(inv[i].checked) + 1
    /\ inv'[i].checked[Len(inv'[i].checked)].verdict # "outside"

LastChecked(i) == inv'[i].checked[Len(inv'[i].checked)]

\* C7: when the ledger query succeeds, the rule is suppressed if and only
\* if the ledger holds a record of that rule with sentAt >= now - cooldown
\* window (the bound included).
C7_SuppressedIffRecent ==
    [][\A i \in Invocations :
          (Checks(i) /\ LastChecked(i).outcome = "ok") =>
              (LastChecked(i).verdict = "recent"
                  <=> \E k \in 1..Len(sent_notifications) :
                        /\ sent_notifications[k].notification_id = LastChecked(i).id
                        /\ sent_notifications[k].sent_at >= LastChecked(i).since)]_vars

\* a rule suppressed by a record lying exactly on the bound, and a rule that
\* a record of another rule, inside its window, did not suppress
C7_Witness ==
    /\ \E i \in Invocations :
          \E e \in Entries(inv[i].checked) :
              /\ e.outcome = "ok" /\ e.verdict = "recent"
              /\ \A k \in 1..Len(sent_notifications) :
                    sent_notifications[k].notification_id = e.id
                        => sent_notifications[k].sent_at = e.since
    /\ \E i \in Invocations :
          \E e \in Entries(inv[i].checked) :
              /\ e.outcome = "ok" /\ e.verdict = "match"
              /\ \E k \in 1..inv[i].ledgerAtStart :
                    /\ sent_notifications[k].notification_id # e.id
                    /\ sent_notifications[k].sent_at >= e.since

(* C8 *)

\* Scenario C at the check invocation i is making: the rule was due one
\* minute before the pass's time and a record of it was sent 4 minutes ago
ScenarioC(i) ==
    /\ Checks(i)
    /\ MinuteKst(started[inv[i].pass]) - DueMinute(LastChecked(i).id) = 1
    /\ \E k \in 1..Len(sent_notifications) :
          /\ sent_notifications[k].notification_id = LastChecked(i).id
          /\ sent_notifications[k].sent_at = now - 4 * 60

\* C8, as stated: in Scenario C the pass dispatches the rule.
C8_ScenarioC_AsStated ==
    [][\A i \in Invocations :
          ScenarioC(i) => LastChecked(i).verdict = "match"]_vars

\* C8, amended: in Scenario C the pass suppresses the rule whenever its
\* ledger query succeeds (4 minutes is inside the 5-minute window); it
\* dispatches the rule only when the query fails.
C8_ScenarioC ==
    [][\A i \in Invocations :
          ScenarioC(i) =>
              /\ LastChecked(i).since = now - 5 * 60
              /\ LastChecked(i).verdict = "recent"
                    <=> LastChecked(i).outcome = "ok"]_vars

\* a finished pass that met Scenario C with a successful query and sent
\* nothing for the rule
C8_Witness ==
    \E i \in Invocations :
        /\ inv[i].pc = "idle"
        /\ \E e \in Entries(inv[i].checked) :
              /\ MinuteKst(started[inv[i].pass]) - DueMinute(e.id) = 1
              /\ e.outcome = "ok" /\ e.verdict = "recent"
              /\ \E k \in 1..inv[i].ledgerAtStart :
                    /\ sent_notifications[k].notification_id = e.id
                    /\ sent_notifications[k].sent_at = e.at - 4 * 60
              /\ PostsOf(e.id, inv[i].pass) = {}

(* C9 *)

\* the only pass so far has finished and every I/O call succeeded
OnePassDone == npass = 1 /\ nfault = 0 /\ inv[1].pc = "idle"

\* C9: after one pass in which store, notifier and ledger succeed, started
\* with an empty ledger, a rule due exactly at the pass's time has been sent
\* exactly once and has exactly one record, and a rule that was not sent has
\* no record.
C9_RoundTrip ==
    OnePassDone =>
        \A id \in RuleIds :
            /\ (Candidate(id, started[1]) /\ Distance(id, started[1]) = 0) =>
                  /\ Cardinality(PostsOf(id, 1)) = 1
                  /\ Cardinality(RecordsOf(id, 1)) = 1
            /\ Cardinality(RecordsOf(id, 1)) = Cardinality(PostsOf(id, 1))
            /\ Cardinality(PostsOf(id, 1)) <= 1
            /\ \A k \in 1..Len(sent_notifications) :
                  sent_notifications[k].pass = 1

\* one pass, run when n1 is due, has finished: n1 was sent and recorded, n2
\* was neither
C9_Witness ==
    /\ OnePassDone
    /\ Distance("n1", started[1]) = 0
    /\ PostsOf("n1", 1) # {} /\ RecordsOf("n1", 1) # {}
    /\ PostsOf("n2", 1) = {} /\ RecordsOf("n2", 1) = {}

(* C10 *)

\* C10: a record is written only after the notifier confirmed success: a
\* dispatch whose send got a non-success response or raised an error writes
\* no record, and every record of the ledger follows a message the webhook
\* accepted, for the same rule, from the same pass.
C10_RecordOnlyAfterSuccess ==
    /\ \A i \in Invocations :
          \A d \in Entries(inv[i].dispatched) :
              d.response # "ok" =>
                  d.tracked = "none" /\ RecordsOf(d.id, inv[i].pass) = {}
    /\ \A k \in 1..Len(sent_notifications) :
          \E l \in 1..Len(slack) :
              /\ slack[l].notification_id = sent_notifications[k].notification_id
              /\ slack[l].pass = sent_notifications[k].pass
              /\ slack[l].at <= sent_notifications[k].sent_at

\* a finished pass whose send failed and that left no record of the rule,
\* beside a record that followed a successful send
C10_Witness ==
    /\ \E i \in Invocations :
          /\ inv[i].pc = "idle"
          /\ \E d \in Entries(inv[i].dispatched) :
                /\ d.response \in {"notok", "throw"}
                /\ RecordsOf(d.id, inv[i].pass) = {}
    /\ Len(sent_notifications) > 0

(* C11 *)

\* a send of the rule failed in a pass that started before the pass of
\* invocation i
FailedBefore(i, id) == \E f \in failed : f.id = id /\ f.pass < inv[i].pass

\* the pass of invocation i has gone through its filter and send loops
PassOver(i) == inv[i].pass > 0 /\ inv[i].pc \in {"returned", "idle"}

\* C11: a failed send leaves no record, so it never causes the rule to be
\* suppressed: a later pass that evaluates the rule as a candidate while the
\* ledger holds no record of it inside the cooldown window approves it, and
\* a pass sends every rule it approved.
C11_RetriedAfterFailedSend ==
    /\ [](\A f \in failed : RecordsOf(f.id, f.pass) = {})
    /\ [][\A i \in Invocations :
            (/\ Checks(i)
             /\ FailedBefore(i, LastChecked(i).id)
             /\ \A k \in 1..Len(sent_notifications) :
                   ~(/\ sent_notifications[k].notification_id = LastChecked(i).id
                     /\ sent_notifications[k].sent_at >= LastChecked(i).since))
                => LastChecked(i).verdict = "match"]_vars
    /\ [](\A i \in Invocations :
            PassOver(i) =>
                \A e \in Entries(inv[i].checked) :
                    e.verdict = "match" =>
                        \E d \in Entries(inv[i].dispatched) : d.id = e.id)

\* the send of a rule failed in one pass and a later pass has sent the rule
C11_Witness ==
    \E i \in Invocations :
        /\ PassOver(i)
        /\ \E d \in Entries(inv[i].dispatched) :
              /\ FailedBefore(i, d.id)
              /\ d.response = "ok"
              /\ PostsOf(d.id, inv[i].pass) # {}

(* C12 *)

\* the rules the calendar makes due on the day the pass of invocation i
\* started
DueToday(i) ==
    {id \in RuleIds :
        RuleOf(id).is_active /\ DayOf[id] = DayKst(started[inv[i].pass])}

\* C12: a cooldown check whose ledger query fails counts as 'not recently
\* sent': the rule is approved and sent, and the pass goes on to evaluate
\* every other rule of the day instead of ending.
C12_FailOpen ==
    \A i \in Invocations :
        \A k \in 1..Len(inv[i].checked) :
            inv[i].checked[k].outcome = "error" =>
                /\ inv[i].checked[k].verdict = "match"
                /\ inv[i].pc \notin {"idle", "returned", "threw"}
                      \/ Len(inv[i].checked) = Cardinality(DueToday(i))
                /\ PassOver(i) =>
                      /\ \E d \in Entries(inv[i].dispatched) :
                            d.id = inv[i].checked[k].id
                      /\ \A id \in DueToday(i) :
                            \E e \in Entries(inv[i].checked) : e.id = id

\* a finished pass whose query for its first rule failed: it sent that rule
\* and went on to evaluate the second
C12_Witness ==
    \E i \in Invocations :
        /\ PassOver(i)
        /\ Len(inv[i].checked) = 2
        /\ inv[i].checked[1].outcome = "error"
        /\ inv[i].checked[2].verdict # "outside"
        /\ PostsOf(inv[i].checked[1].id, inv[i].pass) # {}

(* C13 *)

\* the read of the rules by the pass of invocation i failed
StoreReadFailed(i) == inv[i].fetched \in {"error", "malformed"}

\* C13: when the read of the active rules fails, the pass ends having
\* evaluated no rule, sent no message and written no record.
C13_StoreFailureAborts ==
    \A i \in Invocations :
        StoreReadFailed(i) =>
            /\ inv[i].pc \in {"returned", "idle"}
            /\ inv[i].checked = <<>>
            /\ inv[i].dispatched = <<>>
            /\ \A k \in 1..Len(slack) : slack[k].pass # inv[i].pass
            /\ \A k \in 1..Len(sent_notifications) :
                  sent_notifications[k].pass # inv[i].pass
            /\ \A f \in failed : f.pass # inv[i].pass

\* a pass that started when a rule was due has ended on a failed read, and
\* nothing was sent or recorded
C13_Witness ==
    \E i \in Invocations :
        /\ inv[i].pc = "idle"
        /\ inv[i].fetched = "error"
        /\ Candidate("n1", started[inv[i].pass])
        /\ slack = <<>>
        /\ sent_notifications = <<>>

(* C14 *)

\* the handler of invocation i has ended
HandlerOver(i) == inv[i].pass > 0 /\ inv[i].pc = "idle"

\* C14: when the read of the active rules fails in a scheduled invocation,
\* the handler runs the whole pass a second time: no handler ends after a
\* single run whose read of the rules failed.
C14_RetriedAfterStoreFailure ==
    \A i \in Invocations :
        (HandlerOver(i) /\ inv[i].runs = 1) => ~StoreReadFailed(i)

(* C15 *)

\* C15: in one scheduled invocation runNotificationCheck is called at most
\* twice: a first call when the handler starts, and a second only by a
\* handler whose first call raised; after the second call there is no other.
C15_AtMostTwoRuns ==
    [][\A i \in Invocations :
          /\ inv'[i].runs <= 2
          /\ inv'[i].pass # inv[i].pass =>
                \/ inv[i].pc = "idle" /\ inv'[i].runs = 1
                \/ /\ inv[i].pc = "threw"
                   /\ inv[i].runs = 1
                   /\ inv'[i].runs = 2]_vars

\* a handler has ended after a single call whose read of the rules failed,
\* and another after a single call in which a send failed
C15_Witness ==
    /\ \E i \in Invocations :
          HandlerOver(i) /\ inv[i].runs = 1 /\ StoreReadFailed(i)
    /\ \E i \in Invocations :
          HandlerOver(i) /\ inv[i].runs = 1 /\ inv[i].dispatched # <<>>

(* C16 *)

\* C16: whatever fails (the rule store, the ledger, the notifier),
\* runNotificationCheck never raises to the handler, the handler is never
\* left in its catch clauses, and a running handler always has a next step
\* until it ends.
C16_NeverRaises ==
    \A i \in Invocations :
        /\ inv[i].pc # "threw"
        /\ inv[i].runs <= 1
        /\ Running(i) => ENABLED HandlerStep(i)

\* a handler has ended normally after the TypeError that an answer of the
\* rule store without rows raises in the day filter, while the other
\* handler sent a rule
C16_Witness ==
    /\ \A i \in Invocations : HandlerOver(i)
    /\ \E i \in Invocations : inv[i].fetched = "malformed"
    /\ slack # <<>>

(* C17 *)

\* every handler has ended, one I/O call failed in all, and it was the
\* insert of the record of message k, which the webhook had accepted
InsertFailedFor(k) ==
    /\ \A i \in Invocations : ~Running(i)
    /\ nfault = 1
    /\ RecordsOf(slack[k].notification_id, slack[k].pass) = {}

\* C17: a failed insert after a successful send leads to at most one
\* duplicate delivery of the rule: after the message whose record is
\* missing, the rule is sent at most once more during its occurrence.
C17_AtMostOneDuplicate ==
    \A k \in 1..Len(slack) :
        InsertFailedFor(k) =>
            Cardinality({l \in PostsIn(slack[k].notification_id) : l > k}) <= 1

(* C18 *)

\* a message of the rule has been sent
Sent(id) == \E k \in 1..Len(slack) : slack[k].notification_id = id

\* invocation i has entered a pass in which the rule is a candidate, and no
\* I/O call can fail any more
CandidatePassStarted(i, id) ==
    /\ inv[i].pc = "fetch"
    /\ Candidate(id, StartedAt(i))
    /\ nfault = limits.faults

\* the rule store answered the pass of invocation i and the notifier
\* accepted what the pass sent for the rule
Answered(i, id) ==
    /\ inv[i].fetched = "ok"
    /\ \A f \in failed : ~(f.id = id /\ f.pass = inv[i].pass)

\* C18: a pass that runs while the rule is a candidate and to which the rule
\* store and the notifier respond successfully gets the rule dispatched:
\* once such a pass has started a message of the rule is eventually sent,
\* and when such a pass is over a message of the rule has been sent.
C18_EventuallyDispatched ==
    /\ \A i \in Invocations : \A id \in RuleIds :
          CandidatePassStarted(i, id) ~> Sent(id)
    /\ [](\A i \in Invocations : \A id \in RuleIds :
            (PassOver(i) /\ Candidate(id, started[inv[i].pass]) /\ Answered(i, id))
                => Sent(id))

\* a pass at distance 15 whose ledger query failed has sent the rule, and no
\* other pass has run
C18_Witness ==
    /\ npass = 1
    /\ PassOver(1)
    /\ Distance("n1", started[1]) = 15
    /\ Answered(1, "n1")
    /\ inv[1].checked[1].outcome = "error"
    /\ Sent("n1")

(* C19 *)

\* the day of the week a stored day stands for, -1 when it stands for none
IntendedDay(text) ==
    IF \E d \in 0..6 : text \in DayForms(d)
    THEN CHOOSE d \in 0..6 : text \in DayForms(d)
    ELSE -1

\* the pass of invocation i has read the rules and kept some for today
KeptForToday(i) ==
    inv[i].todaysNotifications # <<>> \/ inv[i].checked # <<>>

\* C19: the day filter keeps a rule exactly when its stored day, blanks
\* around it and the case of its letters set aside, is the number or the
\* name of the day of the week (0 = Sunday) the pass runs on in UTC+9; a
\* rule stored with the number or the name of another day is left out.
C19_DayMatch ==
    \A i \in Invocations :
        inv[i].fetched = "ok" =>
            (KeptForToday(i)
                <=> IntendedDay(weekly_notifications[1].day_of_week)
                        = DayKst(started[inv[i].pass]))

\* a rule stored as a capitalised name with blanks around was kept on its
\* day
C19_Witness ==
    \E i \in Invocations :
        /\ inv[i].fetched = "ok"
        /\ KeptForToday(i)
        /\ weekly_notifications[1].day_of_week
              = <<" ", "S", "a", "t", "u", "r", "d", "a", "y", " ", " ">>
        /\ DayKst(started[inv[i].pass]) = 6

(* C20 *)

\* the pass of invocation i runs within 15 minutes of the rule's time of
\* day, with midnight between the two
AcrossMidnight(i, id) ==
    Distance(id, started[inv[i].pass]) >= 24 * 60 - 15

\* C20: the distance of a rule is |minute of day of the rule - minute of day
\* of the pass|, not taken around midnight (23:58 against 00:02 is 1436),
\* so a pass within 15 minutes of the rule's time but on the other side of
\* midnight finds the rule outside the window and sends nothing.
C20_NoWraparound ==
    \A i \in Invocations :
        /\ \A e \in Entries(inv[i].checked) :
              e.timeDiff = Abs(MinuteKst(started[inv[i].pass]) - DueMinute(e.id))
        /\ (inv[i].pass > 0 /\ AcrossMidnight(i, "n1")) =>
              /\ \A e \in Entries(inv[i].checked) :
                    e.timeDiff >= 1425 /\ e.verdict = "outside"
              /\ inv[i].pc \notin {"send", "track"}
              /\ inv[i].dispatched = <<>>
              /\ slack = <<>>

\* a pass at 00:02 found the rule due at 23:58 of the same day 1436 minutes
\* away and ended without sending
C20_Witness ==
    \E i \in Invocations :
        /\ HandlerOver(i)
        /\ slack = <<>>
        /\ \E e \in Entries(inv[i].checked) :
              /\ e.timeDiff = 1436
              /\ e.verdict = "outside"
              /\ RuleOf(e.id).time = <<23, 58, 0>>
              /\ MinuteKst(started[inv[i].pass]) = 2

(* C21 *)

\* the rule is stored with is_active false
Inactive(id) == ~RuleOf(id).is_active

\* the rule's day is the day of instant t and its time is within 15 minutes
DueNear(id, t) == DayOf[id] = DayKst(t) /\ Distance(id, t) <= 15

\* C21: a rule whose is_active flag is false is never part of a pass: it is
\* not among the rules of today, it is never checked against the ledger,
\* never approved and never sent or recorded, whatever its day and time.
C21_InactiveNeverEvaluated ==
    \A id \in RuleIds :
        Inactive(id) =>
            /\ \A i \in Invocations :
                  /\ \A k \in 1..Len(inv[i].todaysNotifications) :
                        inv[i].todaysNotifications[k].id # id
                  /\ \A k \in 1..Len(inv[i].matchingNotifications) :
                        inv[i].matchingNotifications[k].id # id
                  /\ \A e \in Entries(inv[i].checked) : e.id # id
                  /\ \A e \in Entries(inv[i].dispatched) : e.id # id
            /\ \A k \in 1..Len(slack) : slack[k].notification_id # id
            /\ \A k \in 1..Len(sent_notifications) :
                  sent_notifications[k].notification_id # id

\* a pass that started when the inactive rule n4 was due has ended: it
\* checked and sent n1, which is due at the same day and time
C21_Witness ==
    \E i \in Invocations :
        /\ PassOver(i)
        /\ Inactive("n4") /\ DueNear("n4", StartedAt(i))
        /\ \E e \in Entries(inv[i].checked) : e.id = "n1" /\ e.verdict = "match"
        /\ PostsOf("n1", inv[i].pass) # {}

(* C22 *)

\* s is an initial part of t
IsPrefix(s, t) == Len(s) <= Len(t) /\ SubSeq(t, 1, Len(s)) = s

\* the records that are not of a test rule, and those of them that are not
\* older than 24 hours at instant t
WithoutTestRules(records) ==
    SelectSeq(records,
              LAMBDA r : r.notification_id \notin {"t1", "t2", "t3", "t4", "t5"})
Retained(records, t) ==
    SelectSeq(WithoutTestRules(records), LAMBDA r : r.sent_at >= t - 86400)

C23_PassLeavesRulesAlone ==
    [][/\ (inv' # inv \/ slack' # slack) =>
              weekly_notifications' = weekly_notifications
       /\ (\E i \in Invocations :
              /\ inv[i].pc = "filter"
              /\ Len(inv'[i].checked) > Len(inv[i].checked)) =>
                 /\ weekly_notifications' = weekly_notifications
                 /\ sent_notifications' = sent_notifications]_vars

\* a pass that queried the ledger, sent a rule and recorded it is over,
\* while the rule table is not the one the worker was deployed with
C23_Witness ==
    \E i \in Invocations :
        /\ PassOver(i)
        /\ \E e \in Entries(inv[i].checked) :
              /\ e.outcome = "ok" /\ e.verdict = "match"
              /\ RecordsOf(e.id, inv[i].pass) # {}
        /\ weekly_notifications # Rules

(* C24 *)

TestIdSet == {"t1", "t2", "t3", "t4", "t5"}

\* the rules the pass of invocation i got a message posted for
PostedBy(i) ==
    {slack[k].notification_id :
        k \in {j \in 1..Len(slack) : slack[j].pass = inv[i].pass}}

\* the pass of invocation i has evaluated the five test rules, which
\* /create-test-now had inserted in the minute the pass started in, no
\* message of a test rule was posted before it, and every I/O call succeeded
FollowsCreateTest(i) ==
    /\ PassOver(i)
    /\ nfault = 0
    /\ ~webhookMissing(env)
    /\ TestIdSet \subseteq {e.id : e \in Entries(inv[i].checked)}
    /\ \E k \in 1..Len(weekly_notifications) :
          /\ weekly_notifications[k].id = "t1"
          /\ timeToMinutes(weekly_notifications[k].time) =
                MinuteKst(started[inv[i].pass])
    /\ \A k \in 1..Len(slack) :
          slack[k].notification_id \in TestIdSet => slack[k].pass = inv[i].pass

\* C24: a pass that follows /create-test-now at once, none of the five test
\* rules having a record, sends exactly the four rules at 0, 5, 2 and 10
\* minutes and not the one at 20 minutes, at every time of day.
C24_FourOfFiveSent ==
    \A i \in Invocations :
        FollowsCreateTest(i) =>
            PostedBy(i) \cap TestIdSet = {"t1", "t2", "t3", "t4"}

\* the same for the passes that start before 23:50 and after 00:05
C24_FourOfFiveSent_Daytime ==
    \A i \in Invocations :
        (/\ FollowsCreateTest(i)
         /\ MinuteKst(started[inv[i].pass]) \in 5..(23 * 60 + 49)) =>
            PostedBy(i) \cap TestIdSet = {"t1", "t2", "t3", "t4"}

\* such a pass in the morning
C24_Witness ==
    \E i \in Invocations :
        /\ FollowsCreateTest(i)
        /\ MinuteKst(started[inv[i].pass]) = 9 * 60 + 5

(* C25 *)

\* the day of the week a row of the rule table is due on: that of the rule
\* for the rules the worker is deployed with, the digit stored for a test
\* rule
RowDay(n) ==
    IF n.id \in DOMAIN DayOf THEN DayOf[n.id]
    ELSE CHOOSE d \in 0..6 : Digits[d + 1] = n.day_of_week[1]

\* minutes between the time of day of instant t and the time of the row
RowDistance(n, t) == Abs(MinuteKst(t) - (n.time[1] * 60 + n.time[2]))

\* what an evaluation of row n is to end with, in a pass that started at
\* instant t and asks the ledger at instant at with the given outcome
ExpectedVerdict(n, t, at, ledger, outcome) ==
    LET d == RowDistance(n, t)
        window == IF d <= 2 THEN 5 * 60 ELSE 15 * 60
    IN  IF d > 15 THEN "outside"
        ELSE IF /\ outcome = "ok"
                /\ \E k \in 1..Len(ledger) :
                      /\ ledger[k].notification_id = n.id
                      /\ ledger[k].sent_at >= at - window
        THEN "recent" ELSE "match"

\* the step is the read of the rules by invocation i, and it got them
ReadsRules(i) ==
    inv[i].pc = "fetch" /\ inv'[i].pc # "fetch" /\ inv'[i].fetched = "ok"

\* the step is an iteration of the filter loop of invocation i
ChecksRule(i) ==
    inv[i].pc = "filter" /\ Len(inv'[i].checked) = Len(inv[i].checked) + 1

\* the step posts a message for /force-test
ForcesPost == Len(slack') = Len(slack) + 1 /\ slack'[Len(slack')].pass = 0

\* the first active row of the rule table
FirstActive ==
    weekly_notifications[
        CHOOSE k \in 1..Len(weekly_notifications) :
            /\ weekly_notifications[k].is_active
            /\ \A j \in 1..(k - 1) : ~weekly_notifications[j].is_active]

\* C25: a pass does the same whatever started it, the timer, /test or
\* /heartbeat: it keeps the active rules of the day, each iteration of its
\* filter loop ends as the rule's distance and the ledger demand, and it
\* posts only rules it approved; a handler of /test or /heartbeat calls the
\* pass once.  /force-test posts the message of the first active rule, with
\* no look at the clock or at the ledger.
C25_ManualTriggers ==
    [][/\ \A i \in Invocations :
             /\ ReadsRules(i) =>
                   inv'[i].todaysNotifications =
                       SelectSeq(weekly_notifications,
                           LAMBDA n : /\ n.is_active
                                      /\ RowDay(n) = DayKst(started[inv[i].pass]))
             /\ ChecksRule(i) =>
                   LET n == Head(inv[i].todaysNotifications)
                       e == inv'[i].checked[Len(inv'[i].checked)]
                   IN  /\ e.id = n.id
                       /\ e.verdict =
                             ExpectedVerdict(n, started[inv[i].pass], now,
                                             sent_notifications, e.outcome)
             /\ (inv[i].pc = "send" /\ Len(slack') = Len(slack) + 1) =>
                   \E e \in Entries(inv[i].checked) :
                       /\ e.id = slack'[Len(slack')].notification_id
                       /\ e.verdict = "match"
             /\ inv'[i].trigger \in {"/test", "/heartbeat"} => inv'[i].runs = 1
       /\ ForcesPost =>
             \/ slack'[Len(slack')].notification_id = "undefined"
             \/ /\ slack'[Len(slack')].notification_id = FirstActive.id
                /\ slack'[Len(slack')].text = FirstActive.message]_vars

\* on Tuesday night /test ran a pass that left n1, a rule of Monday morning,
\* out and sent a test rule, and /force-test has posted n1 twice
C25_Witness ==
    /\ DayKst(now) = 2
    /\ \E i \in Invocations :
          /\ inv[i].trigger = "/test" /\ PassOver(i)
          /\ \A e \in Entries(inv[i].checked) : e.id # "n1"
          /\ \E e \in Entries(inv[i].checked) :
                e.id = "t1" /\ e.verdict = "match"
          /\ PostsOf("t1", inv[i].pass) # {}
    /\ Cardinality({k \in ForcedPosts : slack[k].notification_id = "n1"}) = 2

(* C26 *)

\* the message of row n with each word that stands for a value the row
\* carries replaced by that value
Resolved(n) ==
    [k \in 1..Len(n.message) |->
        IF n.message[k] = "{{branch_version}}" /\ "branch_version" \in DOMAIN n
        THEN n.branch_version
        ELSE IF /\ n.message[k] = "{{emoji_this_week}}"
                /\ "emoji_this_week" \in DOMAIN n
        THEN n.emoji_this_week
        ELSE n.message[k]]

C27_AtMostThreeRecords ==
    \A id \in RuleIds : Cardinality(RecordsIn(id)) <= 3

\* four passes have started inside the candidate window of n1, all are over,
\* and three of them have written a record of n1
C27_Witness ==
    /\ npass = 4
    /\ \A p \in 1..4 : InOccurrence("n1", started[p])
    /\ \A i \in Invocations : ~Running(i)
    /\ Cardinality(RecordsIn("n1")) = 3

(* C28 *)

\* no two passes have run at the same time, and no call to the store or the
\* ledger has failed: every failed call was a send
LedgerSound == overlaps = {} /\ nfault = Cardinality(failed)

\* seconds between records k and j of the ledger
Gap(k, j) == sent_notifications[j].sent_at - sent_notifications[k].sent_at

\* C28: when passes do not overlap and the store and the ledger answer every
\* call, two records of one rule are more than 5 minutes apart, and more than
\* 15 minutes when the pass that wrote the later one started at a distance
\* of 3 minutes or more from the rule's time.
C28_RecordsApart ==
    LedgerSound =>
        \A k, j \in 1..Len(sent_notifications) :
            (/\ k < j
             /\ sent_notifications[k].notification_id
                   = sent_notifications[j].notification_id) =>
                /\ Gap(k, j) > 5 * 60
                /\ Distance(sent_notifications[j].notification_id,
                            started[sent_notifications[j].pass]) >= 3 =>
                       Gap(k, j) > 15 * 60

\* n1 has two records six minutes apart, the later one written at distance 2
C28_Witness ==
    /\ LedgerSound
    /\ \E k, j \in 1..Len(sent_notifications) :
          /\ k < j
          /\ sent_notifications[k].notification_id = "n1"
          /\ sent_notifications[j].notification_id = "n1"
          /\ Gap(k, j) = 6 * 60
          /\ Distance("n1", started[sent_notifications[j].pass]) = 2

(* C29 *)

\* the active rules of the table that are due on the day of instant t
RulesOfDay(t) ==
    {id \in RuleIds : RuleOf(id).is_active /\ DayOf[id] = DayKst(t)}

\* the step is a send of invocation i: its send loop takes up a rule
SendsRule(i) == Len(inv'[i].dispatched) = Len(inv[i].dispatched) + 1

\* C29: in a pass the filter loop has gone through every rule of the day
\* before the first message is sent, no iteration of the filter loop comes
\* after a send, and when the send loop takes up a rule the rules before it
\* are done with: each has its message posted and its record written, or
\* has failed.
C29_ChecksBeforeSends ==
    [][\A i \in Invocations :
          /\ ChecksRule(i) =>
                /\ inv[i].dispatched = <<>>
                /\ \A k \in 1..Len(slack) : slack[k].pass # inv[i].pass
          /\ SendsRule(i) =>
                /\ inv[i].todaysNotifications = <<>>
                /\ {e.id : e \in Entries(inv[i].checked)}
                      = RulesOfDay(started[inv[i].pass])
                /\ \A e \in Entries(inv[i].dispatched) :
                      /\ e.tracked # "pending"
                      /\ e.tracked = "ok" =>
                            /\ PostsOf(e.id, inv[i].pass) # {}
                            /\ RecordsOf(e.id, inv[i].pass) # {}
                /\ Cardinality({k \in 1..Len(sent_notifications) :
                                    sent_notifications[k].pass = inv[i].pass})
                      = Cardinality({k \in 1..Len(inv[i].dispatched) :
                                        inv[i].dispatched[k].tracked = "ok"})]_vars

\* a pass checked n1 and n2 and approved both, and has posted and recorded
\* both, n1 first
C29_Witness ==
    \E i \in Invocations :
        /\ PassOver(i)
        /\ Len(inv[i].dispatched) = 2
        /\ inv[i].dispatched[1].id = "n1" /\ inv[i].dispatched[1].tracked = "ok"
        /\ inv[i].dispatched[2].id = "n2" /\ inv[i].dispatched[2].tracked = "ok"
        /\ RecordsOf("n1", inv[i].pass) # {} /\ RecordsOf("n2", inv[i].pass) # {}


(* C30 *)

\* the rules the filter loop of invocation i approved
ApprovedBy(i) ==
    {e.id : e \in {c \in Entries(inv[i].checked) : c.verdict = "match"}}

\* what the send loop of invocation i made of rule id
DispatchOf(i, id) == {e \in Entries(inv[i].dispatched) : e.id = id}

\* the dispatch failed: the post did not go out or was not accepted, or the
\* record was not written
DispatchFailed(e) == e.response # "ok" \/ e.tracked = "error"

\* the message of the rule was posted by the pass and its record written
SentAndRecorded(i, id) ==
    /\ \E e \in DispatchOf(i, id) : e.response = "ok" /\ e.tracked = "ok"
    /\ PostsOf(id, inv[i].pass) # {}

\* C30 as stated: when the dispatch of one approved rule has failed, every
\* other rule approved by the pass is sent and recorded.
C30_OthersSentAndRecorded_AsStated ==
    \A i \in Invocations :
        PassOver(i) =>
            \A id \in ApprovedBy(i) :
                (\E e \in DispatchOf(i, id) : DispatchFailed(e)) =>
                    \A other \in ApprovedBy(i) \ {id} : SentAndRecorded(i, other)

\* C30: a failed dispatch does not stop the pass: the send loop takes up
\* every approved rule, once and in the order of approval, and each rule
\* whose own dispatch did not fail has its message posted and its record
\* written by the pass (the records of a test rule go when the test rules
\* are cleaned up). A worker without a webhook takes up every approved rule
\* and posts none.
C30_FailureDoesNotStopPass ==
    \A i \in Invocations :
        PassOver(i) =>
            /\ Len(inv[i].dispatched) = Cardinality(ApprovedBy(i))
            /\ \A id \in ApprovedBy(i) :
                  /\ DispatchOf(i, id) # {}
                  /\ \A e \in DispatchOf(i, id) :
                        \/ DispatchFailed(e)
                        \/ /\ PostsOf(id, inv[i].pass) # {}
                           /\ e.tracked = "ok"
                           /\ \/ RecordsOf(id, inv[i].pass) # {}
                              \/ id \in TestIdSet
            /\ env.SLACK_WEBHOOK_URL = "" =>
                  /\ \A e \in Entries(inv[i].dispatched) : e.response = "unsent"
                  /\ \A k \in 1..Len(slack) : slack[k].pass # inv[i].pass

\* a pass approved two rules; the dispatch of the first failed and the
\* second was posted and recorded
C30_Witness ==
    \E i \in Invocations :
        /\ PassOver(i)
        /\ Len(inv[i].dispatched) = 2
        /\ DispatchFailed(inv[i].dispatched[1])
        /\ inv[i].dispatched[1].response # "unsent"
        /\ SentAndRecorded(i, inv[i].dispatched[2].id)
        /\ RecordsOf(inv[i].dispatched[2].id, inv[i].pass) # {}


(* C31 *)

\* C31: whichever implementation is deployed, a pass in a behaviour without
\* I/O failures gets an answer to every ledger query it makes, and has
\* written a record for every message the webhook accepted.
C31_SameDecisions ==
    \A i \in Invocations :
        (PassOver(i) /\ nfault = 0) =>
            /\ \A c \in Entries(inv[i].checked) :
                  c.verdict # "outside" => c.outcome = "ok"
            /\ \A e \in Entries(inv[i].dispatched) :
                  e.response = "ok" =>
                      /\ e.tracked = "ok"
                      /\ RecordsOf(e.id, inv[i].pass) # {}

\* the modular implementation has finished a pass in which the webhook
\* accepted the message of n1
C31_Witness ==
    \E i \in Invocations :
        /\ build = "lib"
        /\ PassOver(i)
        /\ nfault = 0
        /\ PostsOf("n1", inv[i].pass) # {}


(* C32 *)

\* runNotificationCheck has returned into the try block of scheduled (of the
\* first call or of the retry), whose next statement logs that the check
\* completed successfully
LogsSuccess(i) == inv[i].trigger = "scheduled" /\ inv[i].pc = "returned"

\* C32: when the scheduled handler logs that the notification check
\* completed successfully, the pass had read the active rules from the
\* store.
C32_SuccessMeansRulesRead ==
    \A i \in Invocations : LogsSuccess(i) => inv[i].fetched = "ok"

\* a handler is about to log the success of a pass whose read of the rules
\* the store answered with an error
C32_Witness ==
    \E i \in Invocations :
        /\ LogsSuccess(i)
        /\ inv[i].fetched = "error"
        /\ inv[i].checked = <<>>
        /\ PostsOf("n1", inv[i].pass) = {}


(* C33 *)

\* the record /force-test writes for the message it has just posted
ForcedRecord ==
    [notification_id |-> slack'[Len(slack')].notification_id,
     sent_at |-> now, pass |-> 0]

\* the iteration of the filter loop that the step makes, of a pass the
\* timer started, meets a record of /force-test for its rule inside the
\* cooldown window
MeetsForcedRecord(i) ==
    /\ ChecksRule(i)
    /\ inv[i].trigger = "scheduled"
    /\ LET c == inv'[i].checked[Len(inv'[i].checked)]
       IN  /\ c.verdict # "outside"
           /\ \E k \in 1..Len(sent_notifications) :
                 /\ sent_notifications[k].pass = 0
                 /\ sent_notifications[k].notification_id = c.id
                 /\ sent_notifications[k].sent_at >= c.since

\* the verdict and the outcome of the ledger query of the iteration
VerdictOf(i) == inv'[i].checked[Len(inv'[i].checked)].verdict
QueryOutcomeOf(i) == inv'[i].checked[Len(inv'[i].checked)].outcome

\* C33 as stated: a send of /force-test that the webhook accepted writes a
\* record for the rule, and a scheduled pass that evaluates the rule while
\* the record is inside its cooldown window suppresses it.
C33_ForcedSendSuppresses_AsStated ==
    [][/\ ForcesPost =>
             sent_notifications' = Append(sent_notifications, ForcedRecord)
       /\ \A i \in Invocations :
             MeetsForcedRecord(i) => VerdictOf(i) = "recent"]_vars

\* C33: a send of /force-test that the webhook accepted writes a record for
\* the rule unless the insert fails, and a scheduled pass that evaluates
\* the rule while the record is inside its cooldown window suppresses it
\* whenever its ledger query succeeds.
C33_ForcedSendSuppresses ==
    [][/\ (ForcesPost /\ nfault' = nfault) =>
             sent_notifications' = Append(sent_notifications, ForcedRecord)
       /\ ForcesPost =>
             \/ sent_notifications' = Append(sent_notifications, ForcedRecord)
             \/ sent_notifications' = sent_notifications
       /\ \A i \in Invocations :
             (MeetsForcedRecord(i) /\ QueryOutcomeOf(i) = "ok") =>
                 VerdictOf(i) = "recent"]_vars

\* /force-test has posted and recorded n1, and a scheduled pass that then
\* checked n1 inside the window found the record and sent nothing for it
C33_Witness ==
    \E i \in Invocations :
        /\ PassOver(i)
        /\ inv[i].trigger = "scheduled"
        /\ \E c \in Entries(inv[i].checked) :
              /\ c.id = "n1" /\ c.verdict = "recent"
              /\ \E k \in 1..Len(sent_notifications) :
                    /\ sent_notifications[k].pass = 0
                    /\ sent_notifications[k].notification_id = "n1"
                    /\ sent_notifications[k].sent_at >= c.since
        /\ \E k \in 1..Len(slack) :
              slack[k].pass = 0 /\ slack[k].notification_id = "n1"
        /\ PostsOf("n1", inv[i].pass) = {}


(* C34 *)

\* C34: a worker without a webhook URL posts no message and writes no
\* record, whatever calls sendSlackNotification, so no pass finds a rule
\* sent recently: every rule inside the window is approved again.
C34_NoWebhookNoRecord ==
    env.SLACK_WEBHOOK_URL = "" =>
        /\ slack = <<>>
        /\ \A k \in 1..Len(sent_notifications) :
              sent_notifications[k] = LastWeek
        /\ \A i \in Invocations :
              /\ \A e \in Entries(inv[i].dispatched) :
                    e.response = "unsent" /\ e.tracked = "none"
              /\ \A c \in Entries(inv[i].checked) : c.verdict # "recent"

\* without a webhook and without an I/O failure, a pass on Monday inside the
\* window of n1 is over, and the pass after it has approved n1 and returned
\* from sendSlackNotification without a post
C34_Witness ==
    /\ env.SLACK_WEBHOOK_URL = ""
    /\ nfault = 0
    /\ Len(started) = 2
    /\ getDay(getKSTTime(started[1])) = 1
    /\ \E i \in Invocations :
          /\ inv[i].pass = 2
          /\ PassOver(i)
          /\ \E c \in Entries(inv[i].checked) :
                c.id = "n1" /\ c.verdict = "match"
          /\ \E e \in Entries(inv[i].dispatched) :
                e.id = "n1" /\ e.response = "unsent"


(* C35 *)

\* a time of day with its seconds field set to zero
WithoutSeconds(t) == <<t[1], t[2], 0>>

\* the whole minutes of time of day t since midnight
WholeMinutes(t) == (t[1] * 3600 + t[2] * 60 + t[3]) \div 60

\* C35: the distance of a rule from a pass is the difference of the whole
\* minutes of the two times of day; it is the distance the rule would have
\* with the seconds of both times set to zero, and the rule is outside the
\* window exactly when that distance is above 15.
C35_SecondsIgnored ==
    \A i \in Invocations :
        \A e \in Entries(inv[i].checked) :
            LET rule == RuleOf(e.id).time
                current == formatTime(inv[i].kstTime)
            IN  /\ e.timeDiff = Abs(WholeMinutes(current) - WholeMinutes(rule))
                /\ e.timeDiff = Abs(WholeMinutes(WithoutSeconds(current))
                                    - WholeMinutes(WithoutSeconds(rule)))
                /\ (e.verdict = "outside") <=> (e.timeDiff > 15)

\* the rule due at 09:00:59 was checked by a pass started at 09:15:00, 14
\* minutes and a second later, found at distance 15 and approved
C35_Witness ==
    \E i \in Invocations :
        \E e \in Entries(inv[i].checked) :
            /\ RuleOf(e.id).time = <<9, 0, 59>>
            /\ formatTime(inv[i].kstTime) = <<9, 15, 0>>
            /\ e.timeDiff = 15
            /\ e.verdict = "match"


(* C36 *)

\* day of the week and second of the day of instant t in UTC
DayUtc(t) == (t \div 86400) % 7
SecondUtc(t) == t % 86400

\* the day a pass started at instant t matches rules against: the day of
\* UTC until 15:00 UTC, the day after from 15:00 UTC on
MatchDay(t) ==
    IF SecondUtc(t) >= 15 * 3600 THEN (DayUtc(t) + 1) % 7 ELSE DayUtc(t)

\* the minute of the day a pass started at instant t matches rules against:
\* the minute of the day of UTC, 540 minutes on
MatchMinute(t) == ((SecondUtc(t) \div 60) + 540) % (24 * 60)

\* C36: a pass takes the day of the week and the time of day from one
\* instant, the one it started at, shifted by 540 minutes; the day is the
\* day of UTC before 15:00 UTC and the day after from 15:00 UTC on, and
\* every rule of the pass is matched against that day and that minute,
\* however long the pass takes.
C36_OneInstantPerPass ==
    \A i \in Invocations :
        inv[i].pass > 0 =>
            LET t == started[inv[i].pass]
            IN  /\ inv[i].kstTime = t + 540 * 60
                /\ currentDayOfWeek(i) = toString(MatchDay(t))
                /\ timeToMinutes(currentTime(i)) = MatchMinute(t)
                /\ \A k \in 1..Len(inv[i].todaysNotifications) :
                      DayOf[inv[i].todaysNotifications[k].id] = MatchDay(t)
                /\ \A e \in Entries(inv[i].checked) :
                      /\ DayOf[e.id] = MatchDay(t)
                      /\ e.timeDiff = Abs(MatchMinute(t) - DueMinute(e.id))

\* a pass started on Monday at 14:59:59 UTC has checked the two rules of
\* Monday, the second after the clock had passed 15:00 UTC, against Monday
\* 23:59, and has not checked the rule of Tuesday
C36_Witness ==
    \E i \in Invocations :
        /\ inv[i].pass > 0
        /\ DayUtc(started[inv[i].pass]) = 1
        /\ SecondUtc(started[inv[i].pass]) = 15 * 3600 - 1
        /\ Len(inv[i].checked) = 2
        /\ inv[i].checked[1].id = "n1" /\ inv[i].checked[1].timeDiff = 0
        /\ inv[i].checked[2].id = "n2" /\ inv[i].checked[2].timeDiff = 9
        /\ inv[i].checked[1].at = started[inv[i].pass]
        /\ SecondUtc(inv[i].checked[2].at) >= 15 * 3600


(* C37 *)

\* the rule id has sent_this_week set in the rule table
SentThisWeek(rows, id) ==
    \E k \in 1..Len(rows) : rows[k].id = id /\ rows[k].sent_this_week

\* invocation i dispatches a rule in this step
Dispatches(i) == Len(inv'[i].dispatched) = Len(inv[i].dispatched) + 1

\* C37: in the sent_this_week implementation a pass never dispatches a
\* rule while the rule's sent_this_week flag is true: every step in which
\* sendSlackNotification is called for a rule finds the flag of that rule
\* false in the rule table
C37_SentRuleNotDispatched ==
    [][\A i \in Invocations :
          Dispatches(i) =>
              ~SentThisWeek(weekly_notifications,
                            inv'[i].dispatched[Len(inv'[i].dispatched)].id)]_vars

\* a pass has posted the message of a rule whose flag another pass had set
\* before, and no reset came between: the rule has two messages and its
\* flag was never set back
C37_Witness ==
    /\ build = "part_008"
    /\ nfault = 0
    /\ \E a, b \in 1..Len(slack) :
          /\ a < b
          /\ slack[a].notification_id = "n1"
          /\ slack[b].notification_id = "n1"
          /\ slack[a].pass # slack[b].pass
    /\ \E i \in Invocations :
          /\ inv[i].pc = "mark"
          /\ Head(inv[i].matchingNotifications).id = "n1"
          /\ SentThisWeek(weekly_notifications, "n1")


(* C38 *)

\* C38: in the sent_this_week implementation a rule is marked
\* sent_this_week = true only after its Slack send succeeded: every dispatch
\* whose mark was written is a dispatch the webhook accepted
C38_MarkedOnlyAfterSent ==
    \A i \in Invocations : \A k \in 1..Len(inv[i].dispatched) :
        inv[i].dispatched[k].tracked = "ok" =>
            Accepted(inv[i].dispatched[k].response)

\* the webhook refused the message of n1, or the worker has no webhook, and
\* the pass marked n1 all the same: the flag is set and no message of n1
\* exists
C38_Witness ==
    /\ build = "part_008"
    /\ \E i \in Invocations : \E k \in 1..Len(inv[i].dispatched) :
          /\ inv[i].dispatched[k].id = "n1"
          /\ inv[i].dispatched[k].response \in {"notok", "throw", "unsent"}
          /\ inv[i].dispatched[k].tracked = "ok"
    /\ SentThisWeek(weekly_notifications, "n1")
    /\ \A m \in 1..Len(slack) : slack[m].notification_id # "n1"


(* C39 *)

\* the entries of the list carry timestamps that never grow from the head
\* to the end of the list
NewestFirst(list) ==
    \A k \in 1..(Len(list) - 1) : list[k].at >= list[k + 1].at

\* C39: after any sequence of addLog calls and clears the log holds at most
\* MAX_LOGS entries, newest first; a step that puts an entry in puts it at
\* the head with the time of the call and keeps the entries behind it in
\* their order, and when the log was full it drops the oldest and keeps
\* the other MAX_LOGS - 1
C39_CappedNewestFirst ==
    [][/\ Len(executionLogs') <= MAX_LOGS
       /\ NewestFirst(executionLogs')
       /\ (executionLogs' # executionLogs /\ executionLogs' # <<>>) =>
             /\ Head(executionLogs').at = now
             /\ Tail(executionLogs') =
                   SubSeq(executionLogs, 1, Len(executionLogs') - 1)
       /\ (/\ executionLogs' # executionLogs
           /\ Len(executionLogs) = MAX_LOGS
           /\ Len(executionLogs') = MAX_LOGS) =>
             \A k \in 1..(MAX_LOGS - 1) :
                 executionLogs'[k + 1] = executionLogs[k]]_vars

\* a full log whose newest entry is younger than its oldest: entries were
\* added to it over more than one instant
C39_Witness ==
    /\ Len(executionLogs) = MAX_LOGS
    /\ executionLogs[1].at > executionLogs[MAX_LOGS].at
    /\ executionLogs[2].at = executionLogs[MAX_LOGS].at

====
